---- MODULE Spec2Model ----
(***************************************************************************)
(* A model of the signer enforcement wrapper (EnforcingChannelKeys) and of *)
(* the stateless inbound payment authenticator (inbound_payment), of the   *)
(* channel monitor behind its test harness, of feature sets, of the key     *)
(* derivation bindings, of route hints and of the fuzz target's RNG.       *)
(*                                                                         *)
(* Machine integers keep their width.  A u64 is a tuple of four 16-bit     *)
(* limbs, most significant first, and a u32 a tuple of two, so that every  *)
(* value the program can hold is representable and every operation is the  *)
(* one the code applies, on the full width.                                *)
(***************************************************************************)
EXTENDS Integers, Sequences, FiniteSets, TLC

VARIABLES
    \* ---- EnforcingChannelKeys ----
    commitment_number_obscure_and_last, \* the Mutex's data: <<Option<u64>, u64>>
    poisoned,       \* the Mutex's poison flag
    lockHolder,     \* the thread holding the Mutex, 0 when free
    pc,             \* each thread's position in its current call
    call,           \* each thread's call in progress: its arguments and locals
    returned,       \* the call that returned last, and what its caller received
    signedLog,      \* history: the commitment transactions signed, in signing order
    revealed,       \* history: the per-commitment secrets the caller has revealed
    interleaved,    \* history: the gaps of a call another call's step fell into
    calls,          \* number of calls begun
    \* ---- inbound_payment ----
    phase,          \* "start", "created", "verified", "derived", "both": the point of the scenario
    created,        \* the call of create / create_from_hash and what it returned
    secret,         \* the payment secret as it reaches verify (possibly altered)
    flipped,        \* the bit of the encrypted region that was flipped, or -1
    verified,       \* the call of verify and what it returned
    preimageOf,     \* the call of get_payment_preimage and what it returned
    \* ---- ChannelMonitor, TestChannelMonitor ----
    monitor,        \* simple_monitor.monitors: the channel's monitor
    added_monitors, \* TestChannelMonitor::added_monitors
    latest_monitor_update_id, \* TestChannelMonitor::latest_monitor_update_id
    update_ret,     \* TestChannelMonitor::update_ret
    next_update_ret, \* TestChannelMonitor::next_update_ret
    txn_broadcasted, \* TestBroadcaster::txn_broadcasted
    monReturned,    \* the add_monitor / update_monitor call that returned last
    holder,         \* the channel holder: "operating", "halted", "crashed"
    stateLog,       \* history: the states the monitor entered, in order
    reloaded,       \* history: the monitor was read back from its bytes
    fuzzed,         \* the run of the fuzz target do_test
    observed,       \* history: the confirmed transaction the monitor saw last
    \* ---- Features ----
    features,       \* the feature set in hand: its context and its flags
    written,        \* the bytes write wrote of it and what read made of them
    projected_from, \* the InitFeatures the feature set in hand is the projection of
    \* ---- chan_utils: key derivation ----
    derivation,     \* the derivation made last: its inputs and what was returned
    obscuring,      \* the commitment index obscured last, stored and extracted
    \* ---- chan_utils: LocalCommitmentTransaction ----
    per_htlc,       \* LocalCommitmentTransaction::per_htlc
    htlc_sigs,      \* the call of get_htlc_sigs made last and what it returned
    \* ---- lightning-invoice: filter_channels ----
    usable_channels, \* the channels the channel manager lists as usable
    route_hints,    \* the call of filter_channels made last and what it returned
    \* ---- util::rng of the fuzz target ----
    RNG_ITER,       \* static mut RNG_ITER: u64
    rng_run,        \* history: the calls made since the last reset_rng_state
    rng_previous    \* history: the calls made before it, since the reset before

signerVars == <<commitment_number_obscure_and_last, poisoned, lockHolder, pc, call,
                returned, signedLog, revealed, interleaved, calls>>

payVars == <<phase, created, secret, flipped, verified, preimageOf>>

\* The variables outside EnforcingChannelKeys, those outside inbound_payment,
\* those outside the channel monitor, and those outside Features.
monVars == <<monitor, added_monitors, latest_monitor_update_id, update_ret,
             next_update_ret, txn_broadcasted, monReturned, holder, stateLog,
             reloaded, fuzzed, observed>>

featVars == <<features, written, projected_from>>

keyVars == <<derivation, obscuring>>

commitVars == <<per_htlc, htlc_sigs>>

hintVars == <<usable_channels, route_hints>>

rngVars == <<RNG_ITER, rng_run, rng_previous>>

nonSignerVars == <<payVars, monVars, featVars, keyVars, commitVars, hintVars, rngVars>>

nonPayVars == <<signerVars, monVars, featVars, keyVars, commitVars, hintVars, rngVars>>

nonMonVars == <<signerVars, payVars, featVars, keyVars, commitVars, hintVars, rngVars>>

nonFeatVars == <<signerVars, payVars, monVars, keyVars, commitVars, hintVars, rngVars>>

nonKeyVars == <<signerVars, payVars, monVars, featVars, commitVars, hintVars, rngVars>>

nonCommitVars == <<signerVars, payVars, monVars, featVars, keyVars, hintVars, rngVars>>

nonHintVars == <<signerVars, payVars, monVars, featVars, keyVars, commitVars, rngVars>>

nonRngVars == <<signerVars, payVars, monVars, featVars, keyVars, commitVars, hintVars>>

vars == <<signerVars, payVars, monVars, featVars, keyVars, commitVars, hintVars, rngVars>>

-----------------------------------------------------------------------------
(* Bounds of the model. *)

\* Calls begun on one wrapper, made one after the other.
MaxCalls == 3

\* Calls begun on one wrapper by threads that run them at the same time.
MaxOverlappingCalls == 2

\* Per-commitment secrets the caller reveals.
MaxRevealed == 1

\* Updates of one channel's monitor.
MaxUpdates == 3

\* Bytes of a fuzz input of chanmon_deser.
MaxDataLen == 8

\* Bytes of the flags of a feature set received from the wire.
MaxFlagsLen == 3

-----------------------------------------------------------------------------
(* Fixed-width integers. *)

\* 2^16, the base of the limbs.
LimbBase == 256 * 256

None == "None"

Some(v) == <<"Some", v>>

Unwrap(o) == o[2]

RECURSIVE BitXor(_, _)
\* a ^ b on naturals.
BitXor(a, b) ==
    IF a = 0 THEN b
    ELSE IF b = 0 THEN a
    ELSE (((a % 2) + (b % 2)) % 2) + 2 * BitXor(a \div 2, b \div 2)

RECURSIVE BitAnd(_, _)
\* a & b on naturals.
BitAnd(a, b) ==
    IF a = 0 \/ b = 0 THEN 0
    ELSE ((a % 2) * (b % 2)) + 2 * BitAnd(a \div 2, b \div 2)

RECURSIVE BitOr(_, _)
\* a | b on naturals.
BitOr(a, b) ==
    IF a = 0 THEN b
    ELSE IF b = 0 THEN a
    ELSE (IF a % 2 = 1 \/ b % 2 = 1 THEN 1 ELSE 0) + 2 * BitOr(a \div 2, b \div 2)

\* 0 as u64.
Zero64 == <<0, 0, 0, 0>>

\* `x as u64` for a u32 x.
U32AsU64(x) == <<0, 0, x[1], x[2]>>

Xor64(a, b) == [i \in 1..4 |-> BitXor(a[i], b[i])]

And64(a, b) == [i \in 1..4 |-> BitAnd(a[i], b[i])]

Or64(a, b) == [i \in 1..4 |-> BitOr(a[i], b[i])]

\* a << 8 on u64: the bits shifted out at the top are lost.
Shl8(a) ==
    [i \in 1..4 |-> (a[i] % 256) * 256 + (IF i = 4 THEN 0 ELSE a[i + 1] \div 256)]

RECURSIVE Shl64(_, _)
\* a << n on u64, n a multiple of 8 below 64.
Shl64(a, n) == IF n = 0 THEN a ELSE Shl64(Shl8(a), n - 8)

\* a < b on u64.
Lt64(a, b) ==
    \E i \in 1..4 : a[i] < b[i] /\ \A j \in 1..(i - 1) : a[j] = b[j]

\* cmp::max(a, b) on u64.
Max64(a, b) == IF Lt64(a, b) THEN b ELSE a

\* The carry out of limb i (0 for i = 5) when adding a and b.
RECURSIVE Carry64(_, _, _)
Carry64(a, b, i) ==
    IF i = 5 THEN 0 ELSE (a[i] + b[i] + Carry64(a, b, i + 1)) \div LimbBase

\* a + b on u64: the wrapped sum, and whether it overflowed.
Add64(a, b) ==
    [sum      |-> [i \in 1..4 |-> (a[i] + b[i] + Carry64(a, b, i + 1)) % LimbBase],
     overflow |-> Carry64(a, b, 1) = 1]

One64 == <<0, 0, 0, 1>>

-----------------------------------------------------------------------------
(* EnforcingChannelKeys: the calls' arguments. *)

Threads == {1, 2}

\* A transaction as far as the wrapper reads it: lock_time (u32), the inputs'
\* sequence fields (u32 each), and the rest of its content.
Tx(lt, ins, outs) == [lock_time |-> lt, input |-> ins, outputs |-> outs]

\* The commitment transactions a calling layer hands to the wrapper: a run of
\* consecutive obscured numbers, transactions that differ from one of them only
\* in their outputs or in bits the number does not cover, one whose number
\* differs in the half carried by the sequence field, and two that have not
\* exactly one input.
TxSet ==
    {Tx(<<8282, 4660 + k>>, <<(<<32963, 3855>>)>>, "a") : k \in 0..2}
    \cup {Tx(<<8282, 4661>>, <<(<<32963, 3855>>)>>, "b"),
          Tx(<<8538, 4660>>, <<(<<32963, 3855>>)>>, "a"),
          Tx(<<8282, 4660>>, <<(<<32963, 3854>>)>>, "a"),
          Tx(<<8282, 4660>>, <<>>, "a"),
          Tx(<<8282, 4661>>, <<(<<32963, 3855>>), (<<32963, 3855>>)>>, "a")}

NoTx == Tx(<<0, 0>>, <<>>, "none")

\* What the underlying signer (InMemoryChannelKeys) can return.
InnerOutcomes == {"Ok", "Err"}

\* 0xffffff as u64.
Mask24 == <<0, 0, 255, 65535>>

\* Line 40 without the mask on lock_time.
ObscuredNumberLockTimeUnmasked(tx) ==
    Or64(U32AsU64(tx.lock_time),
         Shl64(And64(U32AsU64(tx.input[1]), Mask24), 3 * 8))

\* Line 40: the obscured commitment number carried by a one-input transaction.
ObscuredNumber(tx) ==
    Or64(And64(U32AsU64(tx.lock_time), Mask24),
         Shl64(And64(U32AsU64(tx.input[1]), Mask24), 3 * 8))

\* Lines 44-46 recording the factor anew in every call.
ObscureAfterRecordingAnew(data, obscured) == Some(Xor64(obscured, data[2]))

\* Lines 44-46: the obscuring factor after the first-call initialisation.
ObscureAfter(data, obscured) ==
    IF data[1] = None THEN Some(Xor64(obscured, data[2])) ELSE data[1]

\* Line 47: the de-obscured commitment number.
CommitmentNumber(data, obscured) ==
    Xor64(obscured, Unwrap(ObscureAfter(data, obscured)))

\* Lines 44-49 with the high-water mark assigned ahead of the assertion.
DataAtAssertAdvanced(data, obscured) ==
    <<ObscureAfter(data, obscured), Max64(CommitmentNumber(data, obscured), data[2])>>

\* Lines 44-47: the Mutex's data as it stands when the assertion is evaluated.
DataAtAssert(data, obscured) == <<ObscureAfter(data, obscured), data[2]>>

\* Line 48 with `>=` in place of the two equalities.
NumberAcceptedAnyHigher(number, last, overflow_checks) == ~Lt64(number, last)

\* Line 48 without the assertion.
NumberAcceptedAlways(number, last, overflow_checks) == TRUE

\* Line 48 accepting one less than the last number as well.
NumberAcceptedWithin(number, last, overflow_checks) ==
    \/ number = last
    \/ number = Add64(last, One64).sum
    \/ last = Add64(number, One64).sum

\* Line 48: the assertion.  `||` evaluates `last + 1` only when number # last;
\* at u64::MAX the sum overflows: a build with overflow checks panics there (an
\* abort like a failed assertion), one without them compares with the wrapped sum.
NumberAccepted(number, last, overflow_checks) ==
    \/ number = last
    \/ /\ ~(Add64(last, One64).overflow /\ overflow_checks)
       /\ number = Add64(last, One64).sum

\* Line 49 without the assignment taking effect.
AdvancedLastStale(number, last) == last

\* Line 49 with cmp::min for cmp::max.
AdvancedLastMin(number, last) == IF Lt64(number, last) THEN number ELSE last

\* Line 49: the high-water mark after an accepted call.
AdvancedLast(number, last) == Max64(number, last)

\* A call in progress: the operation, its transaction, the wrapper's data and
\* poison flag when it was entered, and the locals of sign_remote_commitment
\* (obscured from line 40, number from line 47, last as the check read it).
NoCall ==
    [op |-> "none", tx |-> NoTx, entry |-> <<None, Zero64>>, entryPoisoned |-> FALSE,
     obscured |-> Zero64, number |-> Zero64, last |-> Zero64]

\* A call that has returned: the call, the underlying signer's outcome when it
\* was reached ("none" otherwise), what the caller received (Ok, Err or a
\* panic) and the place that produced it.
Returned(c, inner, kind, at) == [call |-> c, inner |-> inner, kind |-> kind, at |-> at]

NoReturn == Returned(NoCall, "none", "none", "none")

\* A thread does one step (check, advance or sign) of its call: the step falls
\* into a gap of the call of every other thread that has done its check and
\* still has a step to do.  A gap is named by the step that ends it.
InterleavedBy(t, step) ==
    interleaved \cup
        {[gap |-> pc[u], step |-> step] :
            u \in {v \in Threads : v # t /\ pc[v] \in {"advance", "sign"}}}

-----------------------------------------------------------------------------
(* EnforcingChannelKeys: construction and operations. *)

\* EnforcingChannelKeys::new: the state is (None, 0) and the Mutex is free.
SignerInit ==
    /\ commitment_number_obscure_and_last = <<None, Zero64>>
    /\ poisoned = FALSE
    /\ lockHolder = 0
    /\ pc = [t \in Threads |-> "idle"]
    /\ call = [t \in Threads |-> NoCall]
    /\ returned = NoReturn
    /\ signedLog = <<>>
    /\ revealed = {}
    /\ interleaved = {}
    /\ calls = 0

\* sign_remote_commitment, lines 38-40: the call is entered; a transaction that
\* has not exactly one input panics, otherwise the obscured number is extracted.
BeginRemote(t, tx) ==
    /\ UNCHANGED nonSignerVars
    /\ pc[t] = "idle"
    /\ calls' = calls + 1
    /\ LET c == [NoCall EXCEPT !.op = "sign_remote_commitment", !.tx = tx,
                               !.entry = commitment_number_obscure_and_last,
                               !.entryPoisoned = poisoned]
       IN IF Len(tx.input) # 1
          THEN /\ returned' = Returned(c, "none", "panic", "inputs")
               /\ UNCHANGED <<call, pc>>
          ELSE /\ call' = [call EXCEPT ![t] = [c EXCEPT !.obscured = ObscuredNumber(tx)]]
               /\ pc' = [pc EXCEPT ![t] = "lock"]
               /\ UNCHANGED returned
    /\ UNCHANGED <<commitment_number_obscure_and_last, poisoned, lockHolder,
                   signedLog, revealed, interleaved>>

\* Line 43 without mutual exclusion.
LockAlwaysFree(t) == TRUE

\* Whether thread t may take the Mutex.
LockFree(t) == lockHolder = 0

\* Line 43 taking the Mutex whether or not it is poisoned.
LockIgnoringPoison(t) ==
    /\ UNCHANGED nonSignerVars
    /\ pc[t] = "lock"
    /\ LockFree(t)
    /\ lockHolder' = t
    /\ pc' = [pc EXCEPT ![t] = "check"]
    /\ UNCHANGED <<commitment_number_obscure_and_last, poisoned, signedLog,
                   revealed, interleaved, calls, returned, call>>

\* Line 43: lock().unwrap().  The thread waits while another holds the Mutex; a
\* poisoned Mutex makes unwrap panic, and the guard is dropped again.
Lock(t) ==
    /\ UNCHANGED nonSignerVars
    /\ pc[t] = "lock"
    /\ LockFree(t)
    /\ IF poisoned
       THEN /\ returned' = Returned(call[t], "none", "panic", "poisoned")
            /\ pc' = [pc EXCEPT ![t] = "idle"]
            /\ call' = [call EXCEPT ![t] = NoCall]
            /\ UNCHANGED lockHolder
       ELSE /\ lockHolder' = t
            /\ pc' = [pc EXCEPT ![t] = "check"]
            /\ UNCHANGED <<returned, call>>
    /\ UNCHANGED <<commitment_number_obscure_and_last, poisoned, signedLog,
                   revealed, interleaved, calls>>

\* Lines 44-48: the first call records the obscuring factor; the number is
\* de-obscured and asserted to be last or last + 1.  A failed assertion panics
\* with the guard alive: the Mutex is poisoned and released.
Check(t) ==
    /\ UNCHANGED nonSignerVars
    /\ pc[t] = "check"
    /\ \E overflow_checks \in BOOLEAN :
          LET data == commitment_number_obscure_and_last
              number == CommitmentNumber(data, call[t].obscured)
              c == [call[t] EXCEPT !.number = number, !.last = data[2]]
          IN /\ commitment_number_obscure_and_last' = DataAtAssert(data, call[t].obscured)
             /\ IF NumberAccepted(number, data[2], overflow_checks)
                THEN /\ pc' = [pc EXCEPT ![t] = "advance"]
                     /\ call' = [call EXCEPT ![t] = c]
                     /\ UNCHANGED <<poisoned, lockHolder, returned>>
                ELSE /\ pc' = [pc EXCEPT ![t] = "idle"]
                     /\ call' = [call EXCEPT ![t] = NoCall]
                     /\ poisoned' = TRUE
                     /\ lockHolder' = 0
                     /\ returned' = Returned(c, "none", "panic", "assert")
    /\ interleaved' = InterleavedBy(t, "check")
    /\ UNCHANGED <<signedLog, revealed, calls>>

\* Lines 49-50: the high-water mark advances and the guard goes out of scope.
Advance(t) ==
    /\ UNCHANGED nonSignerVars
    /\ pc[t] = "advance"
    /\ commitment_number_obscure_and_last' =
           <<commitment_number_obscure_and_last[1],
             AdvancedLast(call[t].number, commitment_number_obscure_and_last[2])>>
    /\ lockHolder' = 0
    /\ pc' = [pc EXCEPT ![t] = "sign"]
    /\ interleaved' = InterleavedBy(t, "advance")
    /\ UNCHANGED <<poisoned, call, returned, signedLog, revealed, calls>>

\* What sign_remote_commitment and sign_closing_transaction hand to their
\* caller for the underlying signer's outcome: Ok(inner(...).unwrap()).
UnwrappedResult(c, outcome) ==
    IF outcome = "Ok"
    THEN Returned(c, outcome, "Ok", "inner")
    ELSE Returned(c, outcome, "panic", "unwrap")

\* Line 60 written like lines 52 and 56.
PassedResultUnwrapped(c, outcome) ==
    IF outcome = "Ok"
    THEN Returned(c, outcome, "Ok", "inner")
    ELSE Returned(c, outcome, "panic", "unwrap")

\* What sign_channel_announcement hands to its caller: the inner result itself.
PassedResult(c, outcome) == Returned(c, outcome, outcome, "inner")

\* Line 52: the underlying signer is called and its result unwrapped.
Sign(t) ==
    /\ UNCHANGED nonSignerVars
    /\ pc[t] = "sign"
    /\ \E outcome \in InnerOutcomes :
          /\ returned' = UnwrappedResult(call[t], outcome)
          /\ signedLog' =
                 IF outcome = "Ok"
                 THEN Append(signedLog, [tx |-> call[t].tx, number |-> call[t].number,
                                         last |-> call[t].last])
                 ELSE signedLog
    /\ pc' = [pc EXCEPT ![t] = "idle"]
    /\ call' = [call EXCEPT ![t] = NoCall]
    /\ interleaved' = InterleavedBy(t, "sign")
    /\ UNCHANGED <<commitment_number_obscure_and_last, poisoned, lockHolder,
                   revealed, calls>>

\* sign_closing_transaction taking the Mutex as sign_remote_commitment does.
SignClosingLocking(t) ==
    /\ UNCHANGED nonSignerVars
    /\ pc[t] = "idle"
    /\ lockHolder = 0
    /\ calls' = calls + 1
    /\ LET c == [NoCall EXCEPT !.op = "sign_closing_transaction",
                               !.entry = commitment_number_obscure_and_last,
                               !.entryPoisoned = poisoned]
       IN IF poisoned
          THEN returned' = Returned(c, "none", "panic", "poisoned")
          ELSE \E outcome \in InnerOutcomes : returned' = UnwrappedResult(c, outcome)
    /\ UNCHANGED <<commitment_number_obscure_and_last, poisoned, lockHolder, pc,
                   call, signedLog, revealed, interleaved>>

\* sign_closing_transaction, lines 55-57.
SignClosing(t) ==
    /\ UNCHANGED nonSignerVars
    /\ pc[t] = "idle"
    /\ calls' = calls + 1
    /\ \E outcome \in InnerOutcomes :
          returned' = UnwrappedResult(
              [NoCall EXCEPT !.op = "sign_closing_transaction",
                             !.entry = commitment_number_obscure_and_last,
                             !.entryPoisoned = poisoned], outcome)
    /\ UNCHANGED <<commitment_number_obscure_and_last, poisoned, lockHolder, pc,
                   call, signedLog, revealed, interleaved>>

\* sign_channel_announcement, lines 59-61.
SignAnnouncement(t) ==
    /\ UNCHANGED nonSignerVars
    /\ pc[t] = "idle"
    /\ calls' = calls + 1
    /\ \E outcome \in InnerOutcomes :
          returned' = PassedResult(
              [NoCall EXCEPT !.op = "sign_channel_announcement",
                             !.entry = commitment_number_obscure_and_last,
                             !.entryPoisoned = poisoned], outcome)
    /\ UNCHANGED <<commitment_number_obscure_and_last, poisoned, lockHolder, pc,
                   call, signedLog, revealed, interleaved>>

\* commitment_seed, line 36: the wrapper hands the seed of every per-commitment
\* secret to its caller and records nothing; the caller reveals the secret of a
\* commitment it has had signed (after `after` signatures).
RevealSecret(n) ==
    /\ UNCHANGED nonSignerVars
    /\ Cardinality(revealed) < MaxRevealed
    /\ \A r \in revealed : r.number # n
    /\ revealed' = revealed \cup {[number |-> n, after |-> Len(signedLog)]}
    /\ UNCHANGED <<commitment_number_obscure_and_last, poisoned, lockHolder, pc,
                   call, returned, signedLog, interleaved, calls>>

\* No call is in progress.
Quiescent == \A t \in Threads : pc[t] = "idle"

SignedNumbers == {signedLog[i].number : i \in 1..Len(signedLog)}

\* Calls that overlap: two threads share one wrapper.
Next ==
    \/ \E t \in Threads, tx \in TxSet :
          calls < MaxOverlappingCalls /\ BeginRemote(t, tx)
    \/ \E t \in Threads : Lock(t)
    \/ \E t \in Threads : Check(t)
    \/ \E t \in Threads : Advance(t)
    \/ \E t \in Threads : Sign(t)
    \/ \E t \in Threads : calls < MaxOverlappingCalls /\ SignClosing(t)
    \/ \E t \in Threads : calls < MaxOverlappingCalls /\ SignAnnouncement(t)
    \/ \E n \in SignedNumbers : RevealSecret(n)

\* Calls made one after the other, from whichever thread.
SeqNext ==
    \/ \E t \in Threads, tx \in TxSet :
          calls < MaxCalls /\ Quiescent /\ BeginRemote(t, tx)
    \/ \E t \in Threads : Lock(t)
    \/ \E t \in Threads : Check(t)
    \/ \E t \in Threads : Advance(t)
    \/ \E t \in Threads : Sign(t)
    \/ \E t \in Threads : calls < MaxCalls /\ Quiescent /\ SignClosing(t)
    \/ \E t \in Threads : calls < MaxCalls /\ Quiescent /\ SignAnnouncement(t)
    \/ \E n \in SignedNumbers : RevealSecret(n)

-----------------------------------------------------------------------------
(* inbound_payment: bytes, keys and the external primitives. *)

IV_LEN == 16

METADATA_LEN == 16

AMT_MSAT_LEN == 8

METHOD_TYPE_OFFSET == 5

LdkPaymentHash == 0

UserPaymentHash == 1

RECURSIVE Pow2(_)
Pow2(n) == IF n = 0 THEN 1 ELSE 2 * Pow2(n - 1)

\* x << n on u8.
ShlU8(x, n) == (x * Pow2(n)) % 256

\* x >> n on u8.
ShrU8(x, n) == x \div Pow2(n)

\* u64::to_le_bytes in place of to_be_bytes.
ToLeBytes(x) ==
    [i \in 1..AMT_MSAT_LEN |->
        IF i % 2 = 1 THEN x[4 - (i \div 2)] % 256 ELSE x[5 - (i \div 2)] \div 256]

\* u64::to_be_bytes.
ToBeBytes(x) ==
    [i \in 1..AMT_MSAT_LEN |->
        IF i % 2 = 1 THEN x[(i + 1) \div 2] \div 256 ELSE x[i \div 2] % 256]

\* u64::from_be_bytes.
FromBeBytes(b) == [i \in 1..4 |-> b[2 * i - 1] * 256 + b[2 * i]]

\* MAX_VALUE_MSAT = 21_000_000 * 1_0000_0000 * 1000 = 0x1D24_B2DF_AC52_0000, the
\* total bitcoin supply in millisatoshis.
MAX_VALUE_MSAT == <<7460, 45791, 44114, 0>>

\* 7200 as u64 (line 129).
TwoHours == <<0, 0, 0, 7200>>

\* The primitives are ideal: a digest is the term of what was hashed, so two
\* digests are equal exactly when key and input are, and a keystream block is
\* the term of its key and nonce.
Hmac(key, data) == <<"hmac", key, data>>

Sha256(data) == <<"sha256", data>>

\* The first IV_LEN bytes of a 32-byte value.
FirstIvLen(value) == <<"first16", value>>

\* hkdf_extract_expand_thrice: three keys expanded from the key material.
ExpandedKey(key_material) ==
    [metadata_key      |-> <<"hkdf", key_material, 1>>,
     ldk_pmt_hash_key  |-> <<"hkdf", key_material, 2>>,
     user_pmt_hash_key |-> <<"hkdf", key_material, 3>>]

\* A 16-byte block: the XOR of the keystream blocks in `pads` and of `bytes`.
\* With no pad left the block is the plain bytes.
PlainBlock(bytes) == [pads |-> {}, bytes |-> bytes]

\* ChaCha20::get_single_block(key, nonce), its first METADATA_LEN bytes.
ChaChaBlock(key, iv) ==
    [pads |-> {<<"chacha20", key, iv>>}, bytes |-> [i \in 1..METADATA_LEN |-> 0]]

\* a[i] ^ b[i] for i in 0..METADATA_LEN: equal pads cancel.
XorBlock(a, b) ==
    [pads  |-> (a.pads \ b.pads) \cup (b.pads \ a.pads),
     bytes |-> [i \in 1..METADATA_LEN |-> BitXor(a.bytes[i], b.bytes[i])]]

Ok(v) == [kind |-> "Ok", value |-> v]

Err(v) == [kind |-> "Err", value |-> v]

Panicked == [kind |-> "panic", value |-> "overflow"]

-----------------------------------------------------------------------------
(* inbound_payment: create, create_from_hash, verify. *)

\* Method::from_bits.
MethodFromBits(bits) ==
    IF bits = LdkPaymentHash THEN Ok(LdkPaymentHash)
    ELSE IF bits = UserPaymentHash THEN Ok(UserPaymentHash)
    ELSE Err(bits)

\* Line 129: highest_seen_timestamp + invoice_expiry_delta_secs as u64 + 7200.
\* An overflowing sum panics in a build with overflow checks and wraps otherwise.
ExpiryOf(highest_seen_timestamp, invoice_expiry_delta_secs, overflow_checks) ==
    LET first == Add64(highest_seen_timestamp, U32AsU64(invoice_expiry_delta_secs))
        second == Add64(first.sum, TwoHours)
    IN IF overflow_checks /\ (first.overflow \/ second.overflow)
       THEN Panicked
       ELSE Ok(second.sum)

\* construct_metadata_bytes, lines 113-136.
ConstructMetadataBytes(min_value_msat, payment_type, invoice_expiry_delta_secs, highest_seen_timestamp, overflow_checks) ==
    IF min_value_msat # None /\ Lt64(MAX_VALUE_MSAT, Unwrap(min_value_msat))
    THEN Err("()")
    ELSE LET amt == IF min_value_msat = None
                    THEN [i \in 1..AMT_MSAT_LEN |-> 0]
                    ELSE ToBeBytes(Unwrap(min_value_msat))
             min_amt_msat_bytes ==
                 [amt EXCEPT ![1] = BitOr(amt[1], ShlU8(payment_type, METHOD_TYPE_OFFSET))]
             expiry == ExpiryOf(highest_seen_timestamp, invoice_expiry_delta_secs,
                                overflow_checks)
         IN IF expiry.kind = "panic"
            THEN Panicked
            ELSE Ok([i \in 1..METADATA_LEN |->
                        IF i <= AMT_MSAT_LEN
                        THEN min_amt_msat_bytes[i]
                        ELSE ToBeBytes(expiry.value)[i - AMT_MSAT_LEN]])

\* construct_payment_secret, lines 138-148: iv || (keystream ^ metadata).
ConstructPaymentSecret(iv_bytes, metadata_bytes, metadata_key) ==
    [iv  |-> iv_bytes,
     enc |-> XorBlock(ChaChaBlock(metadata_key, iv_bytes), PlainBlock(metadata_bytes))]

\* The HMAC fed the iv only, without hmac.input(&metadata_bytes).
LdkPreimageIvOnly(keys, iv_bytes, metadata) ==
    Hmac(keys.ldk_pmt_hash_key, <<iv_bytes>>)

\* Lines 89-92 and 270-273: HMAC(ldk_pmt_hash_key, iv || metadata).
LdkPreimage(keys, iv_bytes, metadata) ==
    Hmac(keys.ldk_pmt_hash_key, <<iv_bytes, metadata>>)

\* The HMAC without hmac.input(&payment_hash.0).
UserHmacMetadataOnly(keys, metadata, payment_hash) ==
    Hmac(keys.user_pmt_hash_key, <<metadata>>)

\* Lines 102-105 and 200-202: HMAC(user_pmt_hash_key, metadata || payment_hash).
UserHmac(keys, metadata, payment_hash) ==
    Hmac(keys.user_pmt_hash_key, <<metadata, payment_hash>>)

\* create, lines 80-97: Ok(<<payment_hash, payment_secret>>), Err or a panic.
CreateResult(keys, min_value_msat, invoice_expiry_delta_secs, rand_bytes, highest_seen_timestamp, overflow_checks) ==
    LET metadata == ConstructMetadataBytes(min_value_msat, LdkPaymentHash,
                        invoice_expiry_delta_secs, highest_seen_timestamp,
                        overflow_checks)
        iv_bytes == FirstIvLen(rand_bytes)
        payment_preimage == LdkPreimage(keys, iv_bytes, PlainBlock(metadata.value))
    IN IF metadata.kind # "Ok"
       THEN metadata
       ELSE Ok(<<Sha256(payment_preimage),
                 ConstructPaymentSecret(iv_bytes, metadata.value, keys.metadata_key)>>)

\* create_from_hash, lines 99-111: Ok(payment_secret), Err or a panic.
CreateFromHashResult(keys, min_value_msat, payment_hash, invoice_expiry_delta_secs, highest_seen_timestamp, overflow_checks) ==
    LET metadata == ConstructMetadataBytes(min_value_msat, UserPaymentHash,
                        invoice_expiry_delta_secs, highest_seen_timestamp,
                        overflow_checks)
        hmac_bytes == UserHmac(keys, PlainBlock(metadata.value), payment_hash)
        iv_bytes == FirstIvLen(hmac_bytes)
    IN IF metadata.kind # "Ok"
       THEN metadata
       ELSE Ok(ConstructPaymentSecret(iv_bytes, metadata.value, keys.metadata_key))

\* decrypt_metadata, lines 253-265.
DecryptMetadata(payment_secret, keys) ==
    <<payment_secret.iv,
      XorBlock(ChaChaBlock(keys.metadata_key, payment_secret.iv), payment_secret.enc)>>

\* Lines 187 and 239: the payment type bits of the decrypted metadata.  Bytes
\* still under a keystream block are pseudo-random: `noise` is what they hold.
PaymentTypeBits(metadata, noise) ==
    IF metadata.pads = {}
    THEN ShrU8(BitAnd(metadata.bytes[1], 224), METHOD_TYPE_OFFSET)
    ELSE noise

\* Lines 188-192 without the `&= 0b00011111` of line 191.
DecodedMinAmtUnmasked(metadata) ==
    FromBeBytes([i \in 1..AMT_MSAT_LEN |-> metadata.bytes[i]])

\* Lines 188-192: the minimum amount, the payment type bits zeroed out.
DecodedMinAmt(metadata) ==
    FromBeBytes([i \in 1..AMT_MSAT_LEN |->
                    IF i = 1 THEN BitAnd(metadata.bytes[1], 31) ELSE metadata.bytes[i]])

\* Line 193: the expiry.
DecodedExpiry(metadata) ==
    FromBeBytes([i \in 1..AMT_MSAT_LEN |-> metadata.bytes[AMT_MSAT_LEN + i]])

\* derive_ldk_payment_preimage, lines 269-278.
DeriveLdkPaymentPreimage(payment_hash, iv_bytes, metadata, keys) ==
    LET decoded_payment_preimage == LdkPreimage(keys, iv_bytes, metadata)
    IN IF payment_hash # Sha256(decoded_payment_preimage)
       THEN Err(decoded_payment_preimage)
       ELSE Ok(decoded_payment_preimage)

\* Lines 198-221: the authentication of the payment, by its type.  Ok carries
\* the preimage (None for a user payment hash), Err the place that rejected.
Authenticate(payment_hash, iv_bytes, metadata, keys, noise) ==
    LET payment_type_res == MethodFromBits(PaymentTypeBits(metadata, noise))
    IN IF payment_type_res.kind = "Err"
       THEN Err("type")
       ELSE IF payment_type_res.value = UserPaymentHash
       THEN IF iv_bytes # FirstIvLen(UserHmac(keys, metadata, payment_hash))
            THEN Err("hmac")
            ELSE Ok(None)
       ELSE LET derived == DeriveLdkPaymentPreimage(payment_hash, iv_bytes, metadata, keys)
            IN IF derived.kind = "Err" THEN Err("preimage") ELSE Ok(Some(derived.value))

\* Line 223 with `<=` for `<`.
BelowMinimumInclusive(total_msat, min_amt_msat) == ~Lt64(min_amt_msat, total_msat)

\* Line 223.
BelowMinimum(total_msat, min_amt_msat) == Lt64(total_msat, min_amt_msat)

\* Line 228 with `<=` for `<`.
ExpiredInclusive(expiry, highest_seen_timestamp) == ~Lt64(highest_seen_timestamp, expiry)

\* Line 228.
Expired(expiry, highest_seen_timestamp) == Lt64(expiry, highest_seen_timestamp)

\* Err carrying the place that rejected, in place of Err(()).
VerifyReturnNamingCheck(kind, preimage, at, evaluated) ==
    [kind |-> kind, preimage |-> IF kind = "Err" THEN Some(at) ELSE preimage,
     at |-> at, evaluated |-> evaluated]

\* What verify hands back: Ok(preimage) or Err(()), with the place that
\* returned and the checks evaluated, in the order of their evaluation.
VerifyReturn(kind, preimage, at, evaluated) ==
    [kind |-> kind, preimage |-> preimage, at |-> at, evaluated |-> evaluated]

\* verify with the amount and expiry checks placed before the match on the
\* payment type.
VerifyResultChecksFirst(payment_hash, payment_secret, total_msat, highest_seen_timestamp, keys, noise) ==
    LET decrypted == DecryptMetadata(payment_secret, keys)
        iv_bytes == decrypted[1]
        metadata == decrypted[2]
        auth == Authenticate(payment_hash, iv_bytes, metadata, keys, noise)
    IN IF BelowMinimum(total_msat, DecodedMinAmt(metadata))
       THEN VerifyReturn("Err", None, "amount", <<"amount">>)
       ELSE IF Expired(DecodedExpiry(metadata), highest_seen_timestamp)
       THEN VerifyReturn("Err", None, "expiry", <<"amount", "expiry">>)
       ELSE IF auth.kind = "Err"
       THEN VerifyReturn("Err", None, auth.value, <<"amount", "expiry", "auth">>)
       ELSE VerifyReturn("Ok", auth.value, "end", <<"amount", "expiry", "auth">>)

\* verify, lines 182-234.
VerifyResult(payment_hash, payment_secret, total_msat, highest_seen_timestamp, keys, noise) ==
    LET decrypted == DecryptMetadata(payment_secret, keys)
        iv_bytes == decrypted[1]
        metadata == decrypted[2]
        auth == Authenticate(payment_hash, iv_bytes, metadata, keys, noise)
    IN IF auth.kind = "Err"
       THEN VerifyReturn("Err", None, auth.value, <<"auth">>)
       ELSE IF BelowMinimum(total_msat, DecodedMinAmt(metadata))
       THEN VerifyReturn("Err", None, "amount", <<"auth", "amount">>)
       ELSE IF Expired(DecodedExpiry(metadata), highest_seen_timestamp)
       THEN VerifyReturn("Err", None, "expiry", <<"auth", "amount", "expiry">>)
       ELSE VerifyReturn("Ok", auth.value, "end", <<"auth", "amount", "expiry">>)

\* APIError::APIMisuseError { err }; err is the message, its text first and
\* then the values formatted into it.
APIMisuseError(err) == [variant |-> "APIMisuseError", err |-> err]

\* Line 247.
ExpectedLdkGotUser ==
    APIMisuseError(<<"Expected payment type to be LdkPaymentHash, instead got UserPaymentHash">>)

\* get_payment_preimage returning the decoded preimage without the comparison
\* of line 274.
GetPaymentPreimageUnchecked(payment_hash, payment_secret, keys, noise) ==
    LET decrypted == DecryptMetadata(payment_secret, keys)
    IN Ok(LdkPreimage(keys, decrypted[1], decrypted[2]))

\* get_payment_preimage deriving the preimage under user_pmt_hash_key in place
\* of ldk_pmt_hash_key.
GetPaymentPreimageUnderUserKey(payment_hash, payment_secret, keys, noise) ==
    LET decrypted == DecryptMetadata(payment_secret, keys)
        method == MethodFromBits(PaymentTypeBits(decrypted[2], noise))
        derived == DeriveLdkPaymentPreimage(payment_hash, decrypted[1], decrypted[2],
                       [keys EXCEPT !.ldk_pmt_hash_key = keys.user_pmt_hash_key])
    IN IF method.kind = "Err"
       THEN Err(APIMisuseError(<<"Unknown payment type: {}", method.value>>))
       ELSE IF method.value = UserPaymentHash
       THEN Err(ExpectedLdkGotUser)
       ELSE IF derived.kind = "Err"
       THEN Err(APIMisuseError(<<"Payment hash {} did not match decoded preimage {}",
                                 payment_hash, derived.value>>))
       ELSE Ok(derived.value)

\* get_payment_preimage, lines 236-251: Ok(preimage) or Err(APIError).
GetPaymentPreimageResult(payment_hash, payment_secret, keys, noise) ==
    LET decrypted == DecryptMetadata(payment_secret, keys)
        iv_bytes == decrypted[1]
        metadata == decrypted[2]
        method == MethodFromBits(PaymentTypeBits(metadata, noise))
        derived == DeriveLdkPaymentPreimage(payment_hash, iv_bytes, metadata, keys)
    IN IF method.kind = "Err"
       THEN Err(APIMisuseError(<<"Unknown payment type: {}", method.value>>))
       ELSE IF method.value = UserPaymentHash
       THEN Err(ExpectedLdkGotUser)
       ELSE IF derived.kind = "Err"
       THEN Err(APIMisuseError(<<"Payment hash {} did not match decoded preimage {}",
                                 payment_hash, derived.value>>))
       ELSE Ok(derived.value)

-----------------------------------------------------------------------------
(* inbound_payment: the scenarios.  The module keeps no state of its own: a   *)
(* scenario is one payment created, its secret possibly altered on the way,   *)
(* and one verification, one derivation of the preimage, or a verification    *)
(* followed by the derivation for what was verified.                          *)

KeyMaterials == {"km1", "km2"}

\* The arguments of a creation, <<min_value_msat, invoice_expiry_delta_secs,
\* highest_seen_timestamp>>: no minimum; a small minimum; the largest minimum
\* accepted, with the largest delta; the first minimum refused; and a timestamp
\* at which line 129 overflows.
CreateArgs ==
    {<<None, <<0, 3600>>, <<0, 0, 25000, 0>>>>,
     <<Some(<<0, 0, 0, 1000>>), <<0, 3600>>, <<0, 0, 25000, 0>>>>,
     <<Some(MAX_VALUE_MSAT), <<65535, 65535>>, <<0, 0, 25000, 0>>>>,
     <<Some(<<7460, 45791, 44114, 1>>), <<0, 3600>>, <<0, 0, 25000, 0>>>>,
     <<Some(<<0, 0, 0, 1000>>), <<0, 3600>>, <<65535, 65535, 65535, 65535>>>>}

\* keys_manager.get_secure_random_bytes().
RandomBytes == {<<"random", 1>>}

\* Payment hashes chosen outside the module.
UserHashes == {<<"sha256", <<"preimage", "user">>>>, <<"sha256", <<"preimage", "other">>>>}

\* total_msat of the payment received.
Totals == {<<0, 0, 0, 999>>, <<0, 0, 0, 1000>>, MAX_VALUE_MSAT}

\* highest_seen_timestamp (u64) at verification: the expiry of a payment created
\* at u64::MAX in a build that wraps, the expiry of one created at block time
\* with one hour, and one second later.
VerifyTimes == {<<0, 0, 0, 10799>>, <<0, 0, 25000, 10800>>, <<0, 0, 25000, 10801>>}

\* What bytes that are still encrypted can hold in their payment type bits.
NoiseBits == {LdkPaymentHash, UserPaymentHash, 7}

\* The noise to consider for a secret under keys: none when it decrypts.
NoiseFor(payment_secret, keys) ==
    IF DecryptMetadata(payment_secret, keys)[2].pads = {}
    THEN {LdkPaymentHash}
    ELSE NoiseBits

NoSecret ==
    [iv |-> <<"none", "none">>, enc |-> PlainBlock([i \in 1..METADATA_LEN |-> 0])]

NoCreated ==
    [fn |-> "none", key_material |-> "none", min_value_msat |-> None,
     invoice_expiry_delta_secs |-> <<0, 0>>, highest_seen_timestamp |-> Zero64,
     payment_hash |-> <<"none", "none">>, kind |-> "none"]

NoPreimageOf ==
    [key_material |-> "none", payment_hash |-> <<"none", "none">>, noise |-> 0,
     result |-> [kind |-> "none", value |-> <<"none">>]]

NoVerified ==
    [key_material |-> "none", payment_hash |-> <<"none", "none">>,
     total_msat |-> Zero64, highest_seen_timestamp |-> Zero64, noise |-> 0,
     result |-> VerifyReturn("none", None, "none", <<>>)]

\* No call has been made.
PayInit ==
    /\ phase = "start"
    /\ created = NoCreated
    /\ secret = NoSecret
    /\ flipped = -1
    /\ verified = NoVerified
    /\ preimageOf = NoPreimageOf

\* A call of create or create_from_hash, with what it returned.
CreatedCall(fn, km, min, delta, ts, hash, kind) ==
    [fn |-> fn, key_material |-> km, min_value_msat |-> min,
     invoice_expiry_delta_secs |-> delta, highest_seen_timestamp |-> ts,
     payment_hash |-> hash, kind |-> kind]

\* create is called.
Create(km, min, delta, rand, ts, overflow_checks) ==
    /\ UNCHANGED nonPayVars
    /\ phase = "start"
    /\ LET r == CreateResult(ExpandedKey(km), min, delta, rand, ts, overflow_checks)
       IN /\ created' = CreatedCall("create", km, min, delta, ts,
                            IF r.kind = "Ok" THEN r.value[1] ELSE NoCreated.payment_hash,
                            r.kind)
          /\ secret' = IF r.kind = "Ok" THEN r.value[2] ELSE NoSecret
    /\ phase' = "created"
    /\ UNCHANGED <<flipped, verified, preimageOf>>

\* create_from_hash is called.
CreateFromHash(km, min, hash, delta, ts, overflow_checks) ==
    /\ UNCHANGED nonPayVars
    /\ phase = "start"
    /\ LET r == CreateFromHashResult(ExpandedKey(km), min, hash, delta, ts,
                                     overflow_checks)
       IN /\ created' = CreatedCall("create_from_hash", km, min, delta, ts, hash, r.kind)
          /\ secret' = IF r.kind = "Ok" THEN r.value ELSE NoSecret
    /\ phase' = "created"
    /\ UNCHANGED <<flipped, verified, preimageOf>>

\* The payment secret with bit b (0..127) of its bytes 16..31 flipped.
WithBitFlipped(s, b) ==
    [s EXCEPT !.enc.bytes[(b \div 8) + 1] = BitXor(@, Pow2(b % 8))]

\* The payment secret is altered on its way back: one bit of the encrypted
\* metadata is flipped.
FlipBit(b) ==
    /\ UNCHANGED nonPayVars
    /\ phase = "created"
    /\ created.kind = "Ok"
    /\ flipped = -1
    /\ flipped' = b
    /\ secret' = WithBitFlipped(secret, b)
    /\ UNCHANGED <<phase, created, verified, preimageOf>>

\* verify is called for the payment secret, with a payment hash, the total
\* received, the current highest_seen_timestamp and keys (other keys than the
\* creating ones are tried on secrets that were not altered).
Verify(km, hash, total, ts, noise) ==
    /\ UNCHANGED nonPayVars
    /\ phase = "created"
    /\ created.kind = "Ok"
    /\ km # created.key_material => flipped = -1
    /\ verified' =
           [key_material |-> km, payment_hash |-> hash, total_msat |-> total,
            highest_seen_timestamp |-> ts, noise |-> noise,
            result |-> VerifyResult(hash, secret, total, ts, ExpandedKey(km), noise)]
    /\ phase' = "verified"
    /\ UNCHANGED <<created, secret, flipped, preimageOf>>

\* get_payment_preimage is called for the payment secret, with a payment hash
\* and keys (other keys than the creating ones are tried on secrets that were
\* not altered).  After a verification it is called with the payment hash and
\* keys verify was handed; the bytes that do not decrypt are the same then.
GetPaymentPreimage(km, hash, noise) ==
    /\ UNCHANGED nonPayVars
    /\ phase \in {"created", "verified"}
    /\ created.kind = "Ok"
    /\ km # created.key_material => flipped = -1
    /\ phase = "verified" =>
           /\ km = verified.key_material
           /\ hash = verified.payment_hash
           /\ noise = verified.noise
    /\ preimageOf' =
           [key_material |-> km, payment_hash |-> hash, noise |-> noise,
            result |-> GetPaymentPreimageResult(hash, secret, ExpandedKey(km), noise)]
    /\ phase' = IF phase = "verified" THEN "both" ELSE "derived"
    /\ UNCHANGED <<created, secret, flipped, verified>>

PayNext ==
    \/ \E km \in KeyMaterials, args \in CreateArgs, rand \in RandomBytes,
          oc \in BOOLEAN :
          Create(km, args[1], args[2], rand, args[3], oc)
    \/ \E km \in KeyMaterials, args \in CreateArgs, hash \in UserHashes,
          oc \in BOOLEAN :
          CreateFromHash(km, args[1], hash, args[2], args[3], oc)
    \/ \E b \in 0..(METADATA_LEN * 8 - 1) : FlipBit(b)
    \/ \E km \in KeyMaterials, hash \in UserHashes \cup {created.payment_hash},
          total \in Totals, ts \in VerifyTimes :
          \E noise \in NoiseFor(secret, ExpandedKey(km)) :
             Verify(km, hash, total, ts, noise)
    \/ \E km \in KeyMaterials, hash \in UserHashes \cup {created.payment_hash} :
          \E noise \in NoiseFor(secret, ExpandedKey(km)) :
             GetPaymentPreimage(km, hash, noise)

-----------------------------------------------------------------------------
(* ChannelMonitor.  The monitor itself (ln::channelmonitor) is modelled from  *)
(* its specification: a channel's funding outpoint, the id of its latest      *)
(* update, the per-commitment secrets revealed so far (one for every          *)
(* commitment height below the latest), its state, and the latest block seen. *)

\* The states of a channel's monitor, in their order.
MonitorStates == <<"Active", "BreachDetected", "PenaltyBroadcast", "Resolved">>

\* The position of a state in that order, 0 for Active.
StateCode(state) == (CHOOSE i \in 1..Len(MonitorStates) : MonitorStates[i] = state) - 1

\* The first byte write_for_disk writes.
SERIALIZATION_VERSION == 1

\* The bytes write_for_disk writes before the secrets.
HeaderLen == 7

\* No monitor: the channel is not funded yet.
NoMonitor ==
    [funding_txo |-> 0, latest_update_id |-> 0, secrets |-> <<>>, state |-> "None",
     penalty |-> 0, last_block_hash |-> 0]

\* The monitor created at channel funding.
NewMonitor(funding_txo, block_hash) ==
    [funding_txo |-> funding_txo, latest_update_id |-> 0, secrets |-> <<>>,
     state |-> "Active", penalty |-> 0, last_block_hash |-> block_hash]

\* The height of the latest commitment the monitor knows: every height below
\* it is revoked, its secret held.
LatestHeight(m) == Len(m.secrets)

\* write_for_disk that leaves the secrets out.
WriteForDiskWithoutSecrets(m) ==
    <<SERIALIZATION_VERSION, m.funding_txo, StateCode(m.state), m.latest_update_id,
      m.penalty, m.last_block_hash, 0>>

\* write_for_disk: the bytes of the monitor, a pure function of its state.
WriteForDisk(m) ==
    <<SERIALIZATION_VERSION, m.funding_txo, StateCode(m.state), m.latest_update_id,
      m.penalty, m.last_block_hash, Len(m.secrets)>> \o m.secrets

\* <(BlockHash, ChannelMonitor)>::read: Ok(<<latest block hash, monitor>>) for
\* the bytes write_for_disk produces, Err for anything else.
Read(bytes) ==
    IF Len(bytes) < HeaderLen THEN Err("short read")
    ELSE IF bytes[1] # SERIALIZATION_VERSION THEN Err("unknown version")
    ELSE IF bytes[3] >= Len(MonitorStates) THEN Err("invalid value")
    ELSE IF Len(bytes) # HeaderLen + bytes[7] THEN Err("invalid length")
    ELSE Ok(<<bytes[6],
              [funding_txo |-> bytes[2], latest_update_id |-> bytes[4],
               secrets |-> [i \in 1..bytes[7] |-> bytes[HeaderLen + i]],
               state |-> MonitorStates[bytes[3] + 1], penalty |-> bytes[5],
               last_block_hash |-> bytes[6]]>>)

\* The per-commitment secret of a commitment height, as a byte.
SecretOf(height) == 16 + height

\* The ChannelMonitorUpdate that follows update update_id - 1: it brings the
\* commitment of height update_id and reveals the secret of the height before.
MonitorUpdate(update_id) == [update_id |-> update_id, secret |-> SecretOf(update_id - 1)]

\* ChannelMonitorUpdate::write.
WriteUpdate(update) == <<update.update_id, update.secret>>

\* ChannelMonitorUpdate::read.
ReadUpdate(bytes) ==
    IF Len(bytes) # 2 THEN Err("invalid length")
    ELSE Ok([update_id |-> bytes[1], secret |-> bytes[2]])

\* ChannelMonitor::update_monitor: the update is applied in the order of the
\* update ids, in any state of the monitor, and leaves the state as it is.
ApplyUpdate(m, update) ==
    IF update.update_id # m.latest_update_id + 1
    THEN Err("out of order")
    ELSE Ok([m EXCEPT !.latest_update_id = update.update_id,
                      !.secrets = Append(@, update.secret)])

\* The counterparty's commitment transaction of a height: it spends the
\* funding output.
CommitmentTx(funding_txo, height) ==
    [kind |-> "commitment", funding |-> funding_txo, height |-> height,
     inputs |-> <<funding_txo>>]

\* The penalty transaction for a commitment transaction: one input, spent with
\* the revocation secret of the commitment's height, when the monitor holds it.
PenaltyTx(m, tx) ==
    [kind |-> "penalty", funding |-> tx.funding, height |-> tx.height,
     inputs |-> IF tx.height < Len(m.secrets) THEN <<m.secrets[tx.height + 1]>> ELSE <<>>]

\* A confirmed transaction spends the monitor's funding output and is not the
\* latest commitment the monitor knows.
IsBreach(m, tx) ==
    /\ tx.kind = "commitment"
    /\ tx.funding = m.funding_txo
    /\ tx.height # LatestHeight(m)

\* The breach is detected but no penalty transaction is computed.
BlockConnectedDetectOnly(m, tx, block_hash) ==
    IF m.state = "Active" /\ IsBreach(m, tx)
    THEN [monitor |-> [m EXCEPT !.state = "BreachDetected", !.last_block_hash = block_hash],
          broadcast |-> <<>>, entered |-> <<"BreachDetected">>]
    ELSE [monitor |-> [m EXCEPT !.last_block_hash = block_hash],
          broadcast |-> <<>>, entered |-> <<>>]

\* The monitor is handed a block with one transaction confirmed in it: what it
\* becomes, what it broadcasts, and the states it enters.  A breach is detected
\* and the penalty transaction computed and broadcast in the one call; the
\* penalty transaction confirmed resolves the channel.
BlockConnected(m, tx, block_hash) ==
    IF m.state = "Active" /\ IsBreach(m, tx)
    THEN [monitor |-> [m EXCEPT !.state = "PenaltyBroadcast", !.penalty = tx.height + 1,
                                !.last_block_hash = block_hash],
          broadcast |-> <<PenaltyTx(m, tx)>>,
          entered |-> <<"BreachDetected", "PenaltyBroadcast">>]
    ELSE IF /\ m.state = "PenaltyBroadcast"
            /\ tx.kind = "penalty"
            /\ tx.funding = m.funding_txo
            /\ tx.height + 1 = m.penalty
    THEN [monitor |-> [m EXCEPT !.state = "Resolved", !.last_block_hash = block_hash],
          broadcast |-> <<>>, entered |-> <<"Resolved">>]
    ELSE [monitor |-> [m EXCEPT !.last_block_hash = block_hash],
          broadcast |-> <<>>, entered |-> <<>>]

\* The dispute window elapsed takes the monitor back to Active.
WindowElapsedReopens(m) ==
    IF m.state = "PenaltyBroadcast"
    THEN [monitor |-> [m EXCEPT !.state = "Active"], entered |-> <<"Active">>]
    ELSE [monitor |-> m, entered |-> <<>>]

\* The dispute window elapses with the penalty transaction unconfirmed.
WindowElapsed(m) ==
    IF m.state = "PenaltyBroadcast"
    THEN [monitor |-> [m EXCEPT !.state = "Resolved"], entered |-> <<"Resolved">>]
    ELSE [monitor |-> m, entered |-> <<>>]

-----------------------------------------------------------------------------
(* TestChannelMonitor, TestBroadcaster and the fuzz target chanmon_deser. *)

\* The channel's funding outpoint, and the outpoint of another channel.
FundingTxo == 1

OtherTxo == 2

\* The hash of the block the channel is funded in, and of a later block.
FundingBlockHash == 1

LaterBlockHash == 2

\* Result<(), ChannelMonitorUpdateErr> as the tests set it; next_update_ret
\* holds None or one of these.
UpdateRets == {"Ok", "Err"}

\* The bytes a fuzz input is made of.
FuzzBytes == 0..2

\* The fuzz inputs: every byte string of at most MaxDataLen bytes.
FuzzData == UNION {[1..n -> FuzzBytes] : n \in 0..MaxDataLen}

NoMonReturned ==
    [op |-> "none", ret |-> "none", update_ret |-> "none", applied |-> FALSE,
     state_before |-> "None", state_after |-> "None", round_trip |-> FALSE]

NoObserved ==
    [tx |-> CommitmentTx(0, 0), before |-> NoMonitor, after |-> NoMonitor,
     broadcast |-> <<>>, funding_spent |-> FALSE, reloaded |-> FALSE]

NoFuzzed == [data |-> <<>>, read |-> "none", outcome |-> "none"]

\* TestChannelMonitor::new, an empty TestBroadcaster, and a channel holder that
\* has not funded its channel.
MonInit ==
    /\ monitor = NoMonitor
    /\ added_monitors = <<>>
    /\ latest_monitor_update_id = None
    /\ update_ret = "Ok"
    /\ next_update_ret = None
    /\ txn_broadcasted = <<>>
    /\ monReturned = NoMonReturned
    /\ holder = "operating"
    /\ stateLog = <<>>
    /\ reloaded = FALSE
    /\ fuzzed = NoFuzzed
    /\ observed = NoObserved

\* Lines 86 and 113 returning what next_update_ret holds when it is set.
ReturnedNextRet(ret, next_ret) == IF next_ret # None THEN next_ret ELSE ret

\* Lines 86 and 113: let ret = self.update_ret.lock().unwrap().clone().
ReturnedRet(ret, next_ret) == ret

\* Lines 87-89 and 114-116: update_ret after the call.
UpdateRetAfter(ret, next_ret) == IF next_ret # None THEN next_ret ELSE ret

\* The channel holder after a call returned: an error is a permanent fault.
HolderAfter(ret) == IF ret = "Err" THEN "halted" ELSE "operating"

\* A test sets update_ret and next_update_ret.
SetUpdateRet(ret, next_ret) ==
    /\ UNCHANGED nonMonVars
    /\ holder = "operating"
    /\ fuzzed = NoFuzzed
    /\ update_ret' = ret
    /\ next_update_ret' = next_ret
    /\ UNCHANGED <<monitor, added_monitors, latest_monitor_update_id, txn_broadcasted,
                   monReturned, holder, stateLog, reloaded, fuzzed, observed>>

\* TestChannelMonitor::add_monitor, lines 74-91, called by the channel holder
\* at channel funding.
AddMonitor(funding_txo, block_hash) ==
    /\ UNCHANGED nonMonVars
    /\ holder = "operating"
    /\ fuzzed = NoFuzzed
    /\ monitor = NoMonitor
    /\ LET m == NewMonitor(funding_txo, block_hash)
           new == Read(WriteForDisk(m))
           round_trip == new.kind = "Ok" /\ new.value[2] = m
           ret == ReturnedRet(update_ret, next_update_ret)
       IN IF ~round_trip
          THEN /\ monReturned' = [NoMonReturned EXCEPT !.op = "add_monitor", !.ret = "panic",
                                                        !.update_ret = update_ret]
               /\ holder' = "crashed"
               /\ UNCHANGED <<monitor, added_monitors, latest_monitor_update_id,
                              update_ret, next_update_ret, stateLog>>
          ELSE /\ latest_monitor_update_id' = Some(m.latest_update_id)
               /\ added_monitors' = Append(added_monitors, m)
               /\ monitor' = new.value[2]
               /\ stateLog' = Append(stateLog, new.value[2].state)
               /\ update_ret' = UpdateRetAfter(update_ret, next_update_ret)
               /\ next_update_ret' = None
               /\ monReturned' = [op |-> "add_monitor", ret |-> ret,
                                  update_ret |-> update_ret, applied |-> TRUE,
                                  state_before |-> "None",
                                  state_after |-> new.value[2].state,
                                  round_trip |-> TRUE]
               /\ holder' = HolderAfter(ret)
    /\ UNCHANGED <<txn_broadcasted, reloaded, fuzzed, observed>>

\* TestChannelMonitor::update_monitor, lines 93-118, called by the channel
\* holder with the next update of its channel.
UpdateMonitor ==
    /\ UNCHANGED nonMonVars
    /\ holder = "operating"
    /\ monitor # NoMonitor
    /\ monitor.latest_update_id < MaxUpdates
    /\ LET update == MonitorUpdate(monitor.latest_update_id + 1)
           read_update == ReadUpdate(WriteUpdate(update))
           update_round_trip == read_update.kind = "Ok" /\ read_update.value = update
           applied == ApplyUpdate(monitor, update)
           new == Read(WriteForDisk(applied.value))
           round_trip == new.kind = "Ok" /\ new.value[2] = applied.value
           ret == ReturnedRet(update_ret, next_update_ret)
           panicked == [NoMonReturned EXCEPT !.op = "update_monitor", !.ret = "panic",
                                             !.update_ret = update_ret,
                                             !.state_before = monitor.state,
                                             !.state_after = monitor.state]
       IN IF ~update_round_trip
          THEN /\ monReturned' = panicked
               /\ holder' = "crashed"
               /\ UNCHANGED <<monitor, added_monitors, latest_monitor_update_id,
                              update_ret, next_update_ret>>
          ELSE IF applied.kind # "Ok"
          THEN /\ latest_monitor_update_id' = Some(update.update_id)
               /\ monReturned' = panicked
               /\ holder' = "crashed"
               /\ UNCHANGED <<monitor, added_monitors, update_ret, next_update_ret>>
          ELSE IF ~round_trip
          THEN /\ latest_monitor_update_id' = Some(update.update_id)
               /\ monitor' = applied.value
               /\ monReturned' = [panicked EXCEPT !.applied = TRUE]
               /\ holder' = "crashed"
               /\ UNCHANGED <<added_monitors, update_ret, next_update_ret>>
          ELSE /\ latest_monitor_update_id' = Some(update.update_id)
               /\ monitor' = applied.value
               /\ added_monitors' = Append(added_monitors, new.value[2])
               /\ update_ret' = UpdateRetAfter(update_ret, next_update_ret)
               /\ next_update_ret' = None
               /\ monReturned' = [op |-> "update_monitor", ret |-> ret,
                                  update_ret |-> update_ret, applied |-> TRUE,
                                  state_before |-> monitor.state,
                                  state_after |-> applied.value.state,
                                  round_trip |-> TRUE]
               /\ holder' = HolderAfter(ret)
    /\ UNCHANGED <<txn_broadcasted, stateLog, reloaded, fuzzed, observed>>

\* TestBroadcaster::broadcast_transaction, lines 128-132, for each transaction
\* in turn.
Broadcast(broadcasted, txs) == broadcasted \o txs

\* The transactions a block can confirm: a commitment transaction of the
\* counterparty, of any height up to the latest, spending the channel's funding
\* output while it is unspent; a commitment transaction of another channel; a
\* transaction that was broadcast.
Confirmable ==
    {CommitmentTx(FundingTxo, h) : h \in IF observed.funding_spent THEN {}
                                         ELSE 0..LatestHeight(monitor)}
    \cup {CommitmentTx(OtherTxo, 0)}
    \cup {txn_broadcasted[i] : i \in 1..Len(txn_broadcasted)}

\* A block is connected with tx confirmed in it, and the monitor scans it.
ConnectBlock(tx, block_hash) ==
    /\ UNCHANGED nonMonVars
    /\ holder # "crashed"
    /\ monitor # NoMonitor
    /\ LET scanned == BlockConnected(monitor, tx, block_hash)
       IN /\ monitor' = scanned.monitor
          /\ txn_broadcasted' = Broadcast(txn_broadcasted, scanned.broadcast)
          /\ stateLog' = stateLog \o scanned.entered
          /\ observed' = [tx |-> tx, before |-> monitor, after |-> scanned.monitor,
                          broadcast |-> scanned.broadcast,
                          reloaded |-> reloaded,
                          funding_spent |-> \/ observed.funding_spent
                                            \/ /\ tx.kind = "commitment"
                                               /\ tx.funding = monitor.funding_txo]
    /\ UNCHANGED <<added_monitors, latest_monitor_update_id, update_ret, next_update_ret,
                   monReturned, holder, reloaded, fuzzed>>

\* The dispute window of a broadcast penalty transaction elapses.
DisputeWindowElapsed ==
    /\ UNCHANGED nonMonVars
    /\ holder # "crashed"
    /\ monitor.state = "PenaltyBroadcast"
    /\ LET elapsed == WindowElapsed(monitor)
       IN /\ monitor' = elapsed.monitor
          /\ stateLog' = stateLog \o elapsed.entered
    /\ UNCHANGED <<added_monitors, latest_monitor_update_id, update_ret, next_update_ret,
                   txn_broadcasted, monReturned, holder, reloaded, fuzzed, observed>>

\* The process restarts: the monitor is read back from the bytes write_for_disk
\* wrote of it.
Reload ==
    /\ UNCHANGED nonMonVars
    /\ monitor # NoMonitor
    /\ LET new == Read(WriteForDisk(monitor))
       IN monitor' = IF new.kind = "Ok" THEN new.value[2] ELSE NoMonitor
    /\ reloaded' = TRUE
    /\ holder' = IF holder = "crashed" THEN "halted" ELSE holder
    /\ UNCHANGED <<added_monitors, latest_monitor_update_id, update_ret, next_update_ret,
                   txn_broadcasted, monReturned, stateLog, fuzzed, observed>>

\* do_test of chanmon_deser, lines 27-38, on data.
DoTestResult(data) ==
    LET first == Read(data)
        copy == Read(WriteForDisk(first.value[2]))
    IN IF first.kind # "Ok"
       THEN [data |-> data, read |-> "Err", outcome |-> "returned"]
       ELSE IF copy.kind # "Ok"
       THEN [data |-> data, read |-> "Ok", outcome |-> "panic at unwrap"]
       ELSE IF first.value[1] # copy.value[1]
       THEN [data |-> data, read |-> "Ok", outcome |-> "panic at latest_block_hash"]
       ELSE IF first.value[2] # copy.value[2]
       THEN [data |-> data, read |-> "Ok", outcome |-> "panic at monitor"]
       ELSE [data |-> data, read |-> "Ok", outcome |-> "returned"]

\* The fuzz target runs on its own, with no channel funded.
FuzzRun ==
    /\ monitor = NoMonitor
    /\ holder = "operating"
    /\ update_ret = "Ok"
    /\ next_update_ret = None
    /\ fuzzed = NoFuzzed

\* The fuzz target is run on data.
DoTest(data) ==
    /\ UNCHANGED nonMonVars
    /\ FuzzRun
    /\ fuzzed' = DoTestResult(data)
    /\ UNCHANGED <<monitor, added_monitors, latest_monitor_update_id, update_ret,
                   next_update_ret, txn_broadcasted, monReturned, holder, stateLog,
                   reloaded, observed>>

MonNext ==
    \/ \E ret \in UpdateRets, next_ret \in {None} \cup UpdateRets :
          SetUpdateRet(ret, next_ret)
    \/ AddMonitor(FundingTxo, FundingBlockHash)
    \/ UpdateMonitor
    \/ \E tx \in Confirmable : ConnectBlock(tx, LaterBlockHash)
    \/ DisputeWindowElapsed
    \/ Reload
    \/ FuzzRun /\ \E data \in FuzzData : DoTest(data)

-----------------------------------------------------------------------------
(* Features: feature sets, their construction, write and read. *)

\* The contexts a feature set appears in: the type parameter of Features.
Contexts == {"Init", "Node", "Channel"}

\* Features<T>: flags is little-endian, byte 0 first; mark carries no data.
Features(context, flags) == [context |-> context, flags |-> flags]

\* No feature set built yet.
NoFeatures == Features("None", <<>>)

\* Features::empty.
FeaturesEmpty(context) == Features(context, <<>>)

\* InitFeatures::supported, NodeFeatures::supported: vec![2 | 1 << 5,
\* 1 << (9-8)]; ChannelFeatures::supported: Vec::new().
FeaturesSupported(context) ==
    IF context = "Channel"
    THEN Features(context, <<>>)
    ELSE Features(context, <<BitOr(2, 32), 2>>)

\* The bit set_initial_routing_sync sets in byte 0: 1 << 3.
InitialRoutingSyncBit == 8

\* InitFeatures::set_initial_routing_sync.
SetInitialRoutingSync(f) ==
    IF Len(f.flags) = 0
    THEN [f EXCEPT !.flags = <<InitialRoutingSyncBit>>]
    ELSE [f EXCEPT !.flags[1] = BitOr(@, InitialRoutingSyncBit)]

\* Vec::resize(new_len, 0u8).
Resize(flags, new_len) ==
    [i \in 1..new_len |-> IF i <= Len(flags) THEN flags[i] ELSE 0]

\* InitFeatures::or: self resized to the longer of the two, then or'ed byte by
\* byte with o as far as o reaches.
FeaturesOr(f, o) ==
    LET total_feature_len == IF Len(f.flags) >= Len(o.flags) THEN Len(f.flags)
                             ELSE Len(o.flags)
        resized == Resize(f.flags, total_feature_len)
    IN [f EXCEPT !.flags = [i \in 1..total_feature_len |->
                               IF i <= Len(o.flags) THEN BitOr(resized[i], o.flags[i])
                               ELSE resized[i]]]

\* The bit set_require_unknown_bits sets in byte 1: 0x40.
RequireUnknownBit == 64

\* Features::set_require_unknown_bits (test builds).
SetRequireUnknownBits(f) ==
    LET newlen == IF Len(f.flags) >= 2 THEN Len(f.flags) ELSE 2
    IN [f EXCEPT !.flags = [Resize(f.flags, newlen) EXCEPT ![2] = BitOr(@, RequireUnknownBit)]]

\* Masks that leave initial_routing_sync (bit 3) through.
NodeRelevantMaskKeepingSync == <<59, 3>>

\* The bits of bytes 0 and 1 NodeFeatures::with_known_relevant_init_flags
\* keeps: 0b00110011 and 0b00000011.
NodeRelevantMask == <<51, 3>>

\* NodeFeatures::with_known_relevant_init_flags and
\* ChannelFeatures::with_known_relevant_init_flags.
WithKnownRelevantInitFlags(context, init_ctx) ==
    IF context = "Channel"
    THEN Features(context, <<>>)
    ELSE LET kept == IF Len(init_ctx.flags) >= 2 THEN 2 ELSE Len(init_ctx.flags)
         IN Features(context, [i \in 1..kept |-> BitAnd(init_ctx.flags[i], NodeRelevantMask[i])])

\* The even bits of the byte at idx that requires_unknown_bits does not
\* understand, lines 196-206: 0b01000100 in byte 0, 0b01010100 in byte 1, every
\* even bit (0b01010101) in a later byte.
UnknownRequiredMask(idx) == IF idx = 0 THEN 68 ELSE IF idx = 1 THEN 84 ELSE 85

\* Features::requires_unknown_bits, lines 194-208, the same for every context.
RequiresUnknownBits(f) ==
    \E idx \in 0..(Len(f.flags) - 1) :
        BitAnd(f.flags[idx + 1], UnknownRequiredMask(idx)) # 0

\* The masks of supports_unknown_bits with initial_routing_sync (bit 3) not
\* understood either.
UnknownMaskWithoutSync(idx) == IF idx = 0 THEN 204 ELSE IF idx = 1 THEN 252 ELSE 255

\* The masks of supports_unknown_bits looking at the odd bits it does not
\* understand only: 0b10000000, 0b10101000, 0b10101010.
UnknownMaskOddBitsOnly(idx) == IF idx = 0 THEN 128 ELSE IF idx = 1 THEN 168 ELSE 170

\* The bits of the byte at idx that supports_unknown_bits does not understand,
\* lines 212-219: 0b11000100 in byte 0, 0b11111100 in byte 1, every bit of a
\* later byte.
UnknownMask(idx) == IF idx = 0 THEN 196 ELSE IF idx = 1 THEN 252 ELSE 255

\* Features::supports_unknown_bits, lines 210-221, the same for every context.
SupportsUnknownBits(f) ==
    \E idx \in 0..(Len(f.flags) - 1) :
        BitAnd(f.flags[idx + 1], UnknownMask(idx)) # 0

\* Features::initial_routing_sync, lines 270-272.
InitialRoutingSync(f) ==
    Len(f.flags) > 0 /\ BitAnd(f.flags[1], InitialRoutingSyncBit) # 0

\* The feature bits that have a meaning in a context: those the accessors
\* implemented for the context test.  data_loss_protect (flags[0] & 3, bits 0
\* and 1), upfront_shutdown_script (flags[0] & (3 << 4), bits 4 and 5) and
\* var_onion_optin (flags[1] & 3, bits 8 and 9) are implemented for InitContext
\* and NodeContext, initial_routing_sync (flags[0] & (1 << 3), bit 3) for
\* InitContext only, and nothing for ChannelContext.
RecognizedBits(context) ==
    IF context = "Init" THEN {0, 1, 3, 4, 5, 8, 9}
    ELSE IF context = "Node" THEN {0, 1, 4, 5, 8, 9}
    ELSE {}

\* iter().rev() and Vec::reverse.
Reverse(s) == [i \in 1..Len(s) |-> s[Len(s) + 1 - i]]

\* `x as u16` for a usize x.
AsU16(x) == x % LimbBase

\* u16::write: two bytes, big-endian.
WriteU16(x) == <<x \div 256, x % 256>>

\* Vec<u8>::read: a u16 length, big-endian, then that many bytes.
ReadVecU8(bytes) ==
    IF Len(bytes) < 2 THEN Err("ShortRead")
    ELSE LET len == 256 * bytes[1] + bytes[2]
         IN IF Len(bytes) < 2 + len THEN Err("ShortRead")
            ELSE Ok(SubSeq(bytes, 3, 2 + len))

\* write with the flags written in the order they are held.
FeaturesWriteUnswapped(f) == WriteU16(AsU16(Len(f.flags))) \o f.flags

\* Features::write, lines 283-290: the length as u16, then the flags last
\* byte first.
FeaturesWrite(f) == WriteU16(AsU16(Len(f.flags))) \o Reverse(f.flags)

\* Features::read, lines 294-301: the bytes read as a Vec<u8>, reversed.
FeaturesRead(context, bytes) ==
    LET flags == ReadVecU8(bytes)
    IN IF flags.kind = "Err" THEN flags
       ELSE Ok(Features(context, Reverse(flags.value)))

\* The byte values a feature set received from the wire is made of: no bit,
\* each single bit, every bit.
FlagBytes == {0, 1, 2, 4, 8, 16, 32, 64, 128, 255}

\* The feature bytes of a message received: at most MaxFlagsLen bytes, behind
\* their length.
WireFlags == UNION {[1..n -> FlagBytes] : n \in 0..MaxFlagsLen}

NoWritten == [of |-> NoFeatures, bytes |-> <<>>, read |-> Err("none")]

\* No feature set built, nothing written.
FeatInit ==
    /\ features = NoFeatures
    /\ written = NoWritten
    /\ projected_from = NoFeatures

\* A feature set is built or received, none being in hand.
FeatFresh == features = NoFeatures /\ written = NoWritten

\* A feature set is in hand and not written yet.
FeatBuilt == features # NoFeatures /\ written = NoWritten

\* Features::empty() of a context.
FeatEmpty(context) ==
    /\ UNCHANGED nonFeatVars
    /\ FeatFresh
    /\ features' = FeaturesEmpty(context)
    /\ UNCHANGED <<written, projected_from>>

\* supported() of a context.
FeatSupported(context) ==
    /\ UNCHANGED nonFeatVars
    /\ FeatFresh
    /\ features' = FeaturesSupported(context)
    /\ UNCHANGED <<written, projected_from>>

\* A peer's message is read: its feature bytes become a feature set.
FeatReceive(context, flags) ==
    /\ UNCHANGED nonFeatVars
    /\ FeatFresh
    /\ features' = FeaturesRead(context, WriteU16(Len(flags)) \o flags).value
    /\ UNCHANGED <<written, projected_from>>

\* set_initial_routing_sync on an InitFeatures.
FeatSetInitialRoutingSync ==
    /\ UNCHANGED nonFeatVars
    /\ FeatBuilt
    /\ features.context = "Init"
    /\ features' = SetInitialRoutingSync(features)
    /\ UNCHANGED <<written, projected_from>>

\* An InitFeatures or'ed with the supported ones.
FeatOr ==
    /\ UNCHANGED nonFeatVars
    /\ FeatBuilt
    /\ features.context = "Init"
    /\ features' = FeaturesOr(features, FeaturesSupported("Init"))
    /\ UNCHANGED <<written, projected_from>>

\* set_require_unknown_bits on a feature set.
FeatSetRequireUnknownBits ==
    /\ UNCHANGED nonFeatVars
    /\ FeatBuilt
    /\ features' = SetRequireUnknownBits(features)
    /\ projected_from' = NoFeatures
    /\ UNCHANGED written

\* An InitFeatures projected into node or channel context.
FeatWithKnownRelevantInitFlags(context) ==
    /\ UNCHANGED nonFeatVars
    /\ FeatBuilt
    /\ features.context = "Init"
    /\ features' = WithKnownRelevantInitFlags(context, features)
    /\ projected_from' = features
    /\ UNCHANGED written

\* The feature set is written and the bytes written are read back, in the
\* same context.
FeatWriteRead ==
    /\ UNCHANGED nonFeatVars
    /\ FeatBuilt
    /\ LET bytes == FeaturesWrite(features)
       IN written' = [of |-> features, bytes |-> bytes,
                      read |-> FeaturesRead(features.context, bytes)]
    /\ UNCHANGED <<features, projected_from>>

FeatNext ==
    \/ \E context \in Contexts : FeatEmpty(context)
    \/ \E context \in Contexts : FeatSupported(context)
    \/ FeatFresh /\ \E context \in Contexts, flags \in WireFlags : FeatReceive(context, flags)
    \/ FeatSetInitialRoutingSync
    \/ FeatOr
    \/ FeatSetRequireUnknownBits
    \/ \E context \in {"Node", "Channel"} : FeatWithKnownRelevantInitFlags(context)
    \/ FeatWriteRead

-----------------------------------------------------------------------------
(* chan_utils: key derivation.  The curve is a cyclic group of CurveOrder    *)
(* points; a point is written by the scalar that gives it from the          *)
(* generator, so that point addition and multiplication by a scalar are     *)
(* additions and multiplications modulo CurveOrder.                          *)

\* The order of the curve's group.
CurveOrder == 11

\* The values a 32-byte array holds: 0, the scalars below the order, and
\* values at or above the order.
ThirtyTwoBytes == 0..(CurveOrder + 1)

\* SecretKey::from_slice: a secret key is neither zero nor at or above the
\* order.
SecretKeyFromSlice(data) ==
    IF data = 0 \/ data >= CurveOrder THEN Err("InvalidSecretKey") ELSE Ok(data)

\* The secret keys.
SecretKeys == 1..(CurveOrder - 1)

\* A public key: a point other than the point at infinity.
Point(k) == <<"point", k % CurveOrder>>

\* PublicKey::from_secret_key.
PublicKeyFromSecretKey(sk) == Point(sk)

PublicKeys == {Point(k) : k \in SecretKeys}

\* SHA256 of two serialized points, first ‖ second, as a 32-byte value: a
\* fixed function in which the order of the two matters.
Sha256Points(first, second) == (5 * first[2] + 3 * second[2] + 1) % (CurveOrder + 2)

\* The scalar of a hash, modulo the order.
HashScalar(hash) == hash % CurveOrder

\* A non-zero scalar as a key, the zero scalar as a failure.
ScalarResult(scalar) == IF scalar = 0 THEN Err("InvalidTweak") ELSE Ok(scalar)

\* A point as a key, the point at infinity as a failure.
PointResult(scalar) == IF scalar = 0 THEN Err("InvalidPublicKey") ELSE Ok(Point(scalar))

\* lightning::ln::chan_utils::derive_private_key: base_secret +
\* SHA256(per_commitment_point ‖ base_point) mod the order; fails if the
\* result is the zero scalar.
NativeDerivePrivateKey(per_commitment_point, base_secret) ==
    LET base_point == PublicKeyFromSecretKey(base_secret)
        res == Sha256Points(per_commitment_point, base_point)
    IN ScalarResult((base_secret + HashScalar(res)) % CurveOrder)

\* lightning::ln::chan_utils::derive_public_key: base_point +
\* SHA256(per_commitment_point ‖ base_point) * G.
NativeDerivePublicKey(per_commitment_point, base_point) ==
    LET res == Sha256Points(per_commitment_point, base_point)
    IN PointResult((base_point[2] + HashScalar(res)) % CurveOrder)

\* lightning::ln::chan_utils::derive_private_revocation_key:
\* revocation_base_secret * SHA256(revocation_basepoint ‖ per_commitment_point)
\* + per_commitment_secret * SHA256(per_commitment_point ‖ revocation_basepoint)
\* mod the order.
NativeDerivePrivateRevocationKey(per_commitment_secret, revocation_base_secret) ==
    LET revocation_base_point == PublicKeyFromSecretKey(revocation_base_secret)
        per_commitment_point == PublicKeyFromSecretKey(per_commitment_secret)
        rev_append_commit_hash_key == Sha256Points(revocation_base_point, per_commitment_point)
        commit_append_rev_hash_key == Sha256Points(per_commitment_point, revocation_base_point)
    IN ScalarResult((revocation_base_secret * HashScalar(rev_append_commit_hash_key)
                     + per_commitment_secret * HashScalar(commit_append_rev_hash_key))
                    % CurveOrder)

\* lightning::ln::chan_utils::derive_public_revocation_key: the same sum on
\* the points.
NativeDerivePublicRevocationKey(per_commitment_point, revocation_base_point) ==
    LET rev_append_commit_hash_key == Sha256Points(revocation_base_point, per_commitment_point)
        commit_append_rev_hash_key == Sha256Points(per_commitment_point, revocation_base_point)
    IN PointResult((revocation_base_point[2] * HashScalar(rev_append_commit_hash_key)
                    + per_commitment_point[2] * HashScalar(commit_append_rev_hash_key))
                   % CurveOrder)

\* SecretKey::from_slice(..).unwrap() failed.
UnwrapPanicked == [kind |-> "panic", value |-> "unwrap"]

\* derive_private_key of the bindings, lines 22-26: the base secret is
\* unwrapped into a SecretKey, the native function called with
\* per_commitment_point first, and its result converted.
DerivePrivateKey(per_commitment_point, base_secret) ==
    IF SecretKeyFromSlice(base_secret).kind = "Err" THEN UnwrapPanicked
    ELSE NativeDerivePrivateKey(per_commitment_point, base_secret)

\* derive_public_key handing the two points over in the other order.
DerivePublicKeyArgsSwapped(per_commitment_point, base_point) ==
    NativeDerivePublicKey(base_point, per_commitment_point)

\* derive_public_key of the bindings, lines 35-39.
DerivePublicKey(per_commitment_point, base_point) ==
    NativeDerivePublicKey(per_commitment_point, base_point)

\* derive_private_revocation_key of the bindings, lines 46-50.
DerivePrivateRevocationKey(per_commitment_secret, revocation_base_secret) ==
    IF \/ SecretKeyFromSlice(per_commitment_secret).kind = "Err"
       \/ SecretKeyFromSlice(revocation_base_secret).kind = "Err"
    THEN UnwrapPanicked
    ELSE NativeDerivePrivateRevocationKey(per_commitment_secret, revocation_base_secret)

\* derive_public_revocation_key calling the native derive_public_key.
DerivePublicRevocationKeyAsPublicKey(per_commitment_point, revocation_base_point) ==
    NativeDerivePublicKey(per_commitment_point, revocation_base_point)

\* derive_public_revocation_key of the bindings, lines 59-63.
DerivePublicRevocationKey(per_commitment_point, revocation_base_point) ==
    NativeDerivePublicRevocationKey(per_commitment_point, revocation_base_point)

\* The low 24 bits of a 48-bit number, as u32.
Low24AsU32(x) == <<x[3] % 256, x[4]>>

\* The high 24 bits of a 48-bit number, as u32.
High24AsU32(x) == <<x[2] \div 256, (x[2] % 256) * 256 + (x[3] \div 256)>>

\* A u32 of 24 bits with a byte put above them.
WithUpperByte(x, byte) == <<byte * 256 + (x[1] % 256), x[2]>>

\* The commitment transaction that carries an obscured commitment number: its
\* low 24 bits in the low 24 bits of lock_time, its high 24 bits in the low
\* 24 bits of the sole input's sequence, and a byte above each.
StoreObscured(obscured, lock_upper, sequence_upper) ==
    Tx(WithUpperByte(Low24AsU32(obscured), lock_upper),
       <<WithUpperByte(High24AsU32(obscured), sequence_upper)>>, "a")

\* The values of a 16-bit limb the commitment indexes are made of, and those
\* the channel masks are made of.
IndexLimbs == {0, 1, 255, 256, 65535}

MaskLimbs == {0, 4660, 65535}

\* 48-bit commitment indexes and 48-bit channel masks, as u64.
CommitmentIndexes == {<<0, a, b, c>> : a \in IndexLimbs, b \in IndexLimbs, c \in IndexLimbs}

ChannelMasks == {<<0, a, b, c>> : a \in MaskLimbs, b \in MaskLimbs, c \in MaskLimbs}

\* The bytes above the 24 bits of lock_time, and of sequence.
LockTimeUpperBytes == {0, 32, 255}

SequenceUpperBytes == {0, 128, 255}

NoObscuring ==
    [op |-> "none", index |-> Zero64, mask |-> Zero64, tx |-> NoTx,
     extracted |-> Zero64, number |-> Zero64]

NoDerived ==
    [op |-> "none", secrets |-> <<0, 0>>, points |-> <<Point(0), Point(0)>>,
     private |-> Err("none"), public |-> Err("none")]

\* Nothing derived yet.
KeyInit == derivation = NoDerived /\ obscuring = NoObscuring

\* Nothing was derived or obscured yet: each derivation is made on its own.
KeyFresh == derivation = NoDerived /\ obscuring = NoObscuring

\* A per-commitment key is derived twice: by the holder of base_secret with
\* derive_private_key, and from the base point with derive_public_key.
DeriveKey(per_commitment_point, base_secret) ==
    /\ UNCHANGED nonKeyVars
    /\ KeyFresh
    /\ UNCHANGED obscuring
    /\ LET base_point == PublicKeyFromSecretKey(base_secret)
       IN derivation' = [op |-> "derive_key", secrets |-> <<0, base_secret>>,
                      points |-> <<per_commitment_point, base_point>>,
                      private |-> DerivePrivateKey(per_commitment_point, base_secret),
                      public |-> IF SecretKeyFromSlice(base_secret).kind = "Ok"
                                 THEN DerivePublicKey(per_commitment_point, base_point)
                                 ELSE Err("none")]

\* A per-commitment secret is revealed and the revocation key derived twice:
\* from the two secrets with derive_private_revocation_key, and from the two
\* points, as predicted before the secret was known, with
\* derive_public_revocation_key.
DeriveRevocationKey(per_commitment_secret, revocation_base_secret) ==
    /\ UNCHANGED nonKeyVars
    /\ KeyFresh
    /\ UNCHANGED obscuring
    /\ LET per_commitment_point == PublicKeyFromSecretKey(per_commitment_secret)
           revocation_base_point == PublicKeyFromSecretKey(revocation_base_secret)
           valid == /\ SecretKeyFromSlice(per_commitment_secret).kind = "Ok"
                    /\ SecretKeyFromSlice(revocation_base_secret).kind = "Ok"
       IN derivation' = [op |-> "derive_revocation_key",
                      secrets |-> <<per_commitment_secret, revocation_base_secret>>,
                      points |-> <<per_commitment_point, revocation_base_point>>,
                      private |-> DerivePrivateRevocationKey(per_commitment_secret,
                                                             revocation_base_secret),
                      public |-> IF valid
                                 THEN DerivePublicRevocationKey(per_commitment_point,
                                                                revocation_base_point)
                                 ELSE Err("none")]

\* A commitment index is obscured with the channel's mask and stored in a
\* commitment transaction; the wrapper, its obscuring factor being the mask,
\* extracts the obscured number (line 40) and de-obscures it (line 47).
ObscureCommitmentNumber(index, mask, lock_upper, sequence_upper) ==
    /\ UNCHANGED nonKeyVars
    /\ KeyFresh
    /\ UNCHANGED derivation
    /\ LET tx == StoreObscured(Xor64(index, mask), lock_upper, sequence_upper)
           extracted == ObscuredNumber(tx)
       IN obscuring' = [op |-> "obscure", index |-> index, mask |-> mask, tx |-> tx,
                        extracted |-> extracted,
                        number |-> CommitmentNumber(<<Some(mask), Zero64>>, extracted)]

KeyNext ==
    \/ KeyFresh /\ \E per_commitment_point \in PublicKeys, base_secret \in ThirtyTwoBytes :
          DeriveKey(per_commitment_point, base_secret)
    \/ KeyFresh /\ \E per_commitment_secret \in ThirtyTwoBytes, revocation_base_secret \in ThirtyTwoBytes :
          DeriveRevocationKey(per_commitment_secret, revocation_base_secret)
    \/ KeyFresh /\ \E index \in CommitmentIndexes, mask \in ChannelMasks :
          \E lock_upper \in LockTimeUpperBytes, sequence_upper \in SequenceUpperBytes :
              ObscureCommitmentNumber(index, mask, lock_upper, sequence_upper)

-----------------------------------------------------------------------------
(* chan_utils of the bindings: LocalCommitmentTransaction. *)

\* The most HTLCs a commitment transaction of the model holds.
MaxHtlcs == 5

\* The null signature of the C types.
CSignatureNull == <<"CSignature", "null">>

\* Signature::from_rust and into_rust of the C types.
CSignatureFromRust(sig) == <<"CSignature", sig>>

CSignatureIsNull(c_sig) == c_sig = CSignatureNull

CSignatureIntoRust(c_sig) == c_sig[2]

\* HTLCOutputInCommitment: the fields that tell the HTLCs of the model apart.
HTLCOutputInCommitment(amount_msat, transaction_output_index) ==
    [amount_msat |-> amount_msat, transaction_output_index |-> transaction_output_index]

\* A dust HTLC, which has no output, and two HTLCs that have one.
DustHtlc == HTLCOutputInCommitment(1, None)

Htlcs == {DustHtlc, HTLCOutputInCommitment(2, Some(0)), HTLCOutputInCommitment(3, Some(1))}

\* The counterparty's signature for an HTLC's transaction.
RemoteHtlcSignature(htlc) == <<"sig", "remote", htlc.amount_msat>>

\* The entries handed to set_per_htlc: an HTLC and the remote signature, null
\* for a dust HTLC.
HtlcData ==
    { <<htlc, IF htlc.transaction_output_index = None THEN CSignatureNull
              ELSE CSignatureFromRust(RemoteHtlcSignature(htlc))>> : htlc \in Htlcs }

HtlcDataLists == UNION { [1..n -> HtlcData] : n \in 0..MaxHtlcs }

\* local_csv: u16.
LocalCsvs == {0, 144}

\* The signature made with the key of htlc_base_key for the HTLC's transaction.
HtlcSignature(htlc_base_key, local_csv, htlc) == <<"sig", htlc_base_key, local_csv, htlc>>

\* LocalCommitmentTransaction::get_htlc_sigs: one optional signature per
\* stored HTLC, in the stored order; None for a dust HTLC.
NativeGetHtlcSigs(stored, htlc_base_key, local_csv) ==
    Ok([i \in 1..Len(stored) |->
          IF stored[i][1].transaction_output_index = None THEN None
          ELSE Some(HtlcSignature(htlc_base_key, local_csv, stored[i][1]))])

\* The conversion of the entries handed in, line 671: a null signature is None.
PerHtlcIntoRust(val) ==
    [i \in 1..Len(val) |->
        <<val[i][1], IF CSignatureIsNull(val[i][2]) THEN None
                     ELSE Some(CSignatureIntoRust(val[i][2]))>>]

\* The conversion of the result pushing the entries in the reverse order.
HtlcSigsToCReversed(ret) ==
    IF ret.kind = "Ok"
    THEN Ok([i \in 1..Len(ret.value) |->
               LET item == ret.value[Len(ret.value) + 1 - i]
               IN IF item = None THEN CSignatureNull ELSE CSignatureFromRust(Unwrap(item))])
    ELSE Err(0)

\* The conversion of the result, line 731: None is the null signature.
HtlcSigsToC(ret) ==
    IF ret.kind = "Ok"
    THEN Ok([i \in 1..Len(ret.value) |->
               LET item == ret.value[i]
               IN IF item = None THEN CSignatureNull ELSE CSignatureFromRust(Unwrap(item))])
    ELSE Err(0)

\* LocalCommitmentTransaction_get_htlc_sigs, lines 729-733.
LocalCommitmentTransaction_get_htlc_sigs(stored, htlc_base_key, local_csv) ==
    IF SecretKeyFromSlice(htlc_base_key).kind = "Err" THEN UnwrapPanicked
    ELSE HtlcSigsToC(NativeGetHtlcSigs(stored, htlc_base_key, local_csv))

NoHtlcSigs == [called |-> FALSE]

CommitInit == per_htlc = <<>> /\ htlc_sigs = NoHtlcSigs

CommitFresh == per_htlc = <<>> /\ htlc_sigs = NoHtlcSigs

\* LocalCommitmentTransaction_set_per_htlc, lines 670-673.
SetPerHtlc(val) ==
    /\ UNCHANGED nonCommitVars
    /\ CommitFresh
    /\ per_htlc' = PerHtlcIntoRust(val)
    /\ UNCHANGED htlc_sigs

\* A call of LocalCommitmentTransaction_get_htlc_sigs.
GetHtlcSigs(htlc_base_key, local_csv) ==
    /\ UNCHANGED nonCommitVars
    /\ htlc_sigs = NoHtlcSigs
    /\ htlc_sigs' = [called |-> TRUE,
                     htlc_base_key |-> htlc_base_key,
                     local_csv |-> local_csv,
                     stored |-> per_htlc,
                     ret |-> LocalCommitmentTransaction_get_htlc_sigs(per_htlc, htlc_base_key, local_csv)]
    /\ UNCHANGED per_htlc

CommitNext ==
    \/ CommitFresh /\ \E val \in HtlcDataLists : SetPerHtlc(val)
    \/ htlc_sigs = NoHtlcSigs /\ \E htlc_base_key \in ThirtyTwoBytes, local_csv \in LocalCsvs :
          GetHtlcSigs(htlc_base_key, local_csv)

-----------------------------------------------------------------------------
(* lightning-invoice: filter_channels. *)

\* The most channels the channel manager of the model lists.
MaxChannels == 3

\* The counterparty nodes.
CounterpartyNodes == {1, 2}

\* The inbound capacities of the channels, in msat: those of channels of
\* 100,000, 1,000,000 and 2,000,000 satoshis.
InboundCapacities == <<99000000, 990000000, 1990000000>>

\* The minimum the invoice asks for: none, a channel's capacity, one above it,
\* and one above every capacity.
MinInboundCapacities == <<None, Some(99000000), Some(99000001), Some(2000000000)>>

\* counterparty.forwarding_info once the counterparty's channel_update was handled.
ForwardingInfo == [fee_base_msat |-> 1000, fee_proportional_millionths |-> 10, cltv_expiry_delta |-> 72]

\* ChannelDetails: the fields filter_channels reads.
ChannelDetails(node_id, inbound_capacity_msat, is_public, inbound_payment_scid, forwarding_info) ==
    [counterparty |-> [node_id |-> node_id, forwarding_info |-> forwarding_info],
     inbound_capacity_msat |-> inbound_capacity_msat,
     is_public |-> is_public,
     inbound_payment_scid |-> inbound_payment_scid]

ChannelKind(node_id, capacity, is_public, has_scid, has_forwarding_info) ==
    [node_id |-> node_id, capacity |-> InboundCapacities[capacity], is_public |-> is_public,
     has_scid |-> has_scid, has_forwarding_info |-> has_forwarding_info]

\* The kinds of channel of the model: private channels of each capacity to the
\* first node and of two capacities to the second, a private channel without
\* forwarding info, one without an inbound SCID, a public channel, and a public
\* channel without forwarding info.
ChannelKinds ==
    << ChannelKind(1, 1, FALSE, TRUE, TRUE),
       ChannelKind(1, 2, FALSE, TRUE, TRUE),
       ChannelKind(1, 3, FALSE, TRUE, TRUE),
       ChannelKind(2, 1, FALSE, TRUE, TRUE),
       ChannelKind(2, 2, FALSE, TRUE, TRUE),
       ChannelKind(2, 3, FALSE, TRUE, FALSE),
       ChannelKind(1, 3, FALSE, FALSE, TRUE),
       ChannelKind(2, 1, TRUE, TRUE, TRUE),
       ChannelKind(2, 2, TRUE, TRUE, FALSE) >>

ChannelKindLists == UNION { [1..n -> DOMAIN ChannelKinds] : n \in 0..MaxChannels }

\* The channels of the kinds listed, each with an inbound SCID of its own.
ChannelsOfKinds(kinds) ==
    [i \in 1..Len(kinds) |->
        LET kind == ChannelKinds[kinds[i]]
        IN ChannelDetails(kind.node_id, kind.capacity, kind.is_public,
                          IF kind.has_scid THEN Some(i) ELSE None,
                          IF kind.has_forwarding_info THEN Some(ForwardingInfo) ELSE None)]

\* The orders in which a HashMap keyed by the counterparty nodes may iterate.
IterationOrders ==
    { order \in [1..Cardinality(CounterpartyNodes) -> CounterpartyNodes] :
        \A i, j \in DOMAIN order : order[i] = order[j] => i = j }

\* Line 217: the channels the loop skips.
Skipped(channel) ==
    channel.inbound_payment_scid = None \/ channel.counterparty.forwarding_info = None

\* The occupied entry giving way only to a channel of lower capacity.
ReplacesEntryWhenLower(channel, current) ==
    channel.inbound_capacity_msat < current.inbound_capacity_msat

\* Lines 231-237: the occupied entry gives way unless the channel's capacity
\* is lower than its own.
ReplacesEntry(channel, current) ==
    ~ (channel.inbound_capacity_msat < current.inbound_capacity_msat)

\* Lines 216-242: the loop over the channels, from the i-th on.
\* filtered_channels maps a counterparty node to the position of its channel.
RECURSIVE FilterLoop(_, _, _, _, _)
FilterLoop(channels, min_inbound_capacity, i, filtered_channels, min_capacity_channel_exists) ==
    IF i > Len(channels)
    THEN [returned_early |-> FALSE,
          filtered_channels |-> filtered_channels,
          min_capacity_channel_exists |-> min_capacity_channel_exists]
    ELSE LET channel == channels[i]
             node_id == channel.counterparty.node_id
             exists == min_capacity_channel_exists
                          \/ channel.inbound_capacity_msat >= min_inbound_capacity
             inserted == [n \in (DOMAIN filtered_channels) \cup {node_id} |->
                             IF n = node_id THEN i ELSE filtered_channels[n]]
         IN IF Skipped(channel)
            THEN FilterLoop(channels, min_inbound_capacity, i + 1, filtered_channels,
                            min_capacity_channel_exists)
            ELSE IF channel.is_public
            THEN [returned_early |-> TRUE,
                  filtered_channels |-> filtered_channels,
                  min_capacity_channel_exists |-> min_capacity_channel_exists]
            ELSE IF node_id \in DOMAIN filtered_channels
                    /\ ~ ReplacesEntry(channel, channels[filtered_channels[node_id]])
            THEN FilterLoop(channels, min_inbound_capacity, i + 1, filtered_channels, exists)
            ELSE FilterLoop(channels, min_inbound_capacity, i + 1, inserted, exists)

\* Lines 244-256: the route hint of a channel, of one hop.
RouteHintFromChannel(channel) ==
    LET forwarding_info == Unwrap(channel.counterparty.forwarding_info)
    IN << [src_node_id |-> channel.counterparty.node_id,
           short_channel_id |-> Unwrap(channel.inbound_payment_scid),
           fees |-> [base_msat |-> forwarding_info.fee_base_msat,
                     proportional_millionths |-> forwarding_info.fee_proportional_millionths],
           cltv_expiry_delta |-> forwarding_info.cltv_expiry_delta,
           htlc_minimum_msat |-> None,
           htlc_maximum_msat |-> None] >>

\* The filter keeping every entry.
KeepsEntryAlways(channel, min_inbound_capacity, min_capacity_channel_exists) == TRUE

\* Lines 260-264: the filter over the entries of the map.
KeepsEntry(channel, min_inbound_capacity, min_capacity_channel_exists) ==
    \/ min_capacity_channel_exists /\ channel.inbound_capacity_msat >= min_inbound_capacity
    \/ ~ min_capacity_channel_exists

\* filter_channels, lines 211-267, the map iterating in the order given.
FilterChannelsIn(order, channels, min_inbound_capacity_msat) ==
    LET min_inbound_capacity == IF min_inbound_capacity_msat = None THEN 0
                                ELSE Unwrap(min_inbound_capacity_msat)
        loop == FilterLoop(channels, min_inbound_capacity, 1, <<>>, FALSE)
        kept == { n \in DOMAIN loop.filtered_channels :
                    KeepsEntry(channels[loop.filtered_channels[n]], min_inbound_capacity,
                               loop.min_capacity_channel_exists) }
        iterated == SelectSeq(order, LAMBDA n : n \in kept)
    IN IF loop.returned_early THEN <<>>
       ELSE [j \in 1..Len(iterated) |->
                RouteHintFromChannel(channels[loop.filtered_channels[iterated[j]]])]

NoRouteHints == [called |-> FALSE]

HintInit == usable_channels = <<>> /\ route_hints = NoRouteHints

HintFresh == usable_channels = <<>> /\ route_hints = NoRouteHints

\* The channel manager comes to list the channels of the kinds given.
ListUsableChannels(kinds) ==
    /\ UNCHANGED nonHintVars
    /\ HintFresh
    /\ usable_channels' = ChannelsOfKinds(kinds)
    /\ UNCHANGED route_hints

\* A call of filter_channels with the channels listed, line 164.
FilterChannels(order, min_inbound_capacity_msat) ==
    /\ UNCHANGED nonHintVars
    /\ route_hints = NoRouteHints
    /\ route_hints' = [called |-> TRUE,
                       channels |-> usable_channels,
                       min_inbound_capacity_msat |-> min_inbound_capacity_msat,
                       ret |-> FilterChannelsIn(order, usable_channels, min_inbound_capacity_msat)]
    /\ UNCHANGED usable_channels

HintNext ==
    \/ HintFresh /\ \E kinds \in ChannelKindLists : ListUsableChannels(kinds)
    \/ route_hints = NoRouteHints /\ \E order \in IterationOrders, m \in DOMAIN MinInboundCapacities :
          FilterChannels(order, MinInboundCapacities[m])

-----------------------------------------------------------------------------
(* util::rng with the fuzztarget feature: a process-wide counter in place of *)
(* randomness.  The calls of a run are made one after the other, as the fuzz *)
(* target's do_test makes them.                                              *)

\* The most calls logged between two resets.
MaxRngCalls == 3

\* A usize below 2^16 as u64.
AsU64(n) == <<0, 0, 0, n>>

\* byte_utils::be64_to_array: the eight bytes of a u64, most significant first.
Be64ToArray(u) ==
    [i \in 1..8 |-> IF i % 2 = 1 THEN u[(i + 1) \div 2] \div 256 ELSE u[i \div 2] % 256]

\* byte_utils::le64_to_array: the eight bytes of a u64, least significant
\* first.
Le64ToArray(u) ==
    [i \in 1..8 |-> IF i % 2 = 1 THEN u[4 - (i \div 2)] % 256 ELSE u[5 - (i \div 2)] \div 256]

\* `RNG_ITER += 1; RNG_ITER` in place of `RNG_ITER - 1`: the call computes
\* from the counter it leaves behind.
TakeRngIterIncremented(iter) ==
    [RNG_ITER |-> Add64(iter, One64).sum, rng |-> Add64(iter, One64).sum]

\* Lines 31, 41 and 52, `RNG_ITER += 1; RNG_ITER - 1`: the counter the call
\* leaves behind and the value it computes from, which is the counter it
\* found.  (The addition overflows after 2^64 calls without a reset.)
TakeRngIter(iter) ==
    [RNG_ITER |-> Add64(iter, One64).sum, rng |-> iter]

\* Lines 32-37: every whole chunk of 8 bytes of data is be64_to_array(rng),
\* and the remaining bytes are its first bytes.
FillBytesData(len, rng) ==
    LET rem == len % 8
        off == len - rem
    IN [j \in 1..len |->
           IF j <= 8 * (len \div 8)
           THEN Be64ToArray(rng)[((j - 1) % 8) + 1]
           ELSE Be64ToArray(rng)[j - off]]

\* Lines 42-48: le64_to_array(rng) four times.
RandU832Res(rng) == [j \in 1..32 |-> Le64ToArray(rng)[((j - 1) % 8) + 1]]

\* Line 53, f64::from_bits(rng) as f32.  The sign is bit 63 and the biased
\* exponent bits 62..52; a finite f64 below 2^-150 in magnitude (biased
\* exponent below 873) is cast to a zero of its sign, and so is every counter
\* value below 2^52.  Other values are cast to the nearest f32, a function of
\* the bits.
F64FromBitsAsF32(bits) ==
    LET negative == bits[1] \div 32768 = 1
        exponent == (bits[1] % 32768) \div 16
    IN IF exponent < 873
       THEN [negative |-> negative, value |-> <<"zero">>]
       ELSE [negative |-> negative, value |-> <<"nearest f32 of", bits>>]

\* What a call returns (or leaves in data) for the value it computes from.
RngOutput(fn, len, rng) ==
    IF fn = "fill_bytes" THEN FillBytesData(len, rng)
    ELSE IF fn = "rand_u832" THEN RandU832Res(rng)
    ELSE F64FromBitsAsF32(rng)

\* data.len() of the slices handed to fill_bytes: less than a chunk, and a
\* chunk with a remainder.
DataLens == {3, 11}

\* The calls of a run: whether reset_rng_state began it, and its calls.
RngRun(reset, rng_calls) == [reset |-> reset, calls |-> rng_calls]

\* The process starts: the static holds 0 and no call has been made.
RngInit ==
    /\ RNG_ITER = Zero64
    /\ rng_run = RngRun(FALSE, <<>>)
    /\ rng_previous = RngRun(FALSE, <<>>)

\* A call is logged with the value it computed from and what it gave.
RngCall(fn, len) ==
    LET taken == TakeRngIter(RNG_ITER)
    IN /\ Len(rng_run.calls) < MaxRngCalls
       /\ RNG_ITER' = taken.RNG_ITER
       /\ rng_run' = [rng_run EXCEPT !.calls =
                         Append(@, [fn |-> fn, len |-> len, rng |-> taken.rng,
                                    out |-> RngOutput(fn, len, taken.rng)])]
       /\ UNCHANGED rng_previous

\* fill_bytes, lines 30-38.
FillBytes(len) ==
    /\ UNCHANGED nonRngVars
    /\ RngCall("fill_bytes", len)

\* rand_u832, lines 40-49.
RandU832 ==
    /\ UNCHANGED nonRngVars
    /\ RngCall("rand_u832", 32)

\* rand_f32, lines 51-54.
RandF32 ==
    /\ UNCHANGED nonRngVars
    /\ RngCall("rand_f32", 0)

\* reset_rng_state leaving the counter as it is.
ResetRngStateKeepingCounter ==
    /\ UNCHANGED nonRngVars
    /\ UNCHANGED RNG_ITER
    /\ rng_previous' = rng_run
    /\ rng_run' = RngRun(TRUE, <<>>)

\* reset_rng_state, lines 56-58, the first statement of do_test: a new run
\* begins.
ResetRngState ==
    /\ UNCHANGED nonRngVars
    /\ RNG_ITER' = Zero64
    /\ rng_previous' = rng_run
    /\ rng_run' = RngRun(TRUE, <<>>)

RngNext ==
    \/ \E len \in DataLens : FillBytes(len)
    \/ RandU832
    \/ RandF32
    \/ ResetRngState

-----------------------------------------------------------------------------
(* Specifications. *)

\* The signer wrapper as constructed, no payment created, no channel funded,
\* no feature set built, no key derived.
Init ==
    /\ SignerInit /\ PayInit /\ MonInit /\ FeatInit /\ KeyInit /\ CommitInit /\ HintInit
    /\ RngInit

\* Calls on one signer wrapper that overlap.
Spec == Init /\ [][Next]_vars

\* Calls on one signer wrapper made one after the other.
SeqSpec == Init /\ [][SeqNext]_vars

\* Payments created, carried and verified.
PaySpec == Init /\ [][PayNext]_vars

\* One channel's monitor behind TestChannelMonitor, and the fuzz target.
MonSpec == Init /\ [][MonNext]_vars

\* Feature sets built, changed, written and read back.
FeatSpec == Init /\ [][FeatNext]_vars

\* Keys derived through the bindings of chan_utils.
KeySpec == Init /\ [][KeyNext]_vars

CommitSpec == Init /\ [][CommitNext]_vars

HintSpec == Init /\ [][HintNext]_vars

\* Runs of a fuzz target drawing from util::rng.
RngSpec == Init /\ [][RngNext]_vars

-----------------------------------------------------------------------------
(* EnforcingChannelKeys: properties. *)

\* The call that returned last is a sign_remote_commitment of a one-input
\* transaction.
RemoteReturned ==
    /\ returned.call.op = "sign_remote_commitment"
    /\ Len(returned.call.tx.input) = 1

\* The call that returned last passed the commitment-number check and was
\* handed to the underlying signer.
Accepted == returned.at \in {"inner", "unwrap"}

\* n is the last signed number or exactly one more.
SameOrNext(n, last) == n = last \/ n = Add64(last, One64).sum

\* The de-obscured number of the call that returned last, against the wrapper's
\* data as the call found it.
EntryNumber == CommitmentNumber(returned.call.entry, ObscuredNumber(returned.call.tx))

\* C1 as stated: in any sequence of sign_remote_commitment calls, a call is
\* accepted exactly when its de-obscured number is the last signed number or one
\* more.
C1_AcceptsExactlySameOrNext ==
    RemoteReturned =>
        (Accepted <=> SameOrNext(EntryNumber, returned.call.entry[2]))

\* C1 as amended: on a wrapper whose Mutex no earlier call has poisoned, a call
\* is accepted exactly when its number is last or last + 1, and any other call
\* panics; on a poisoned Mutex every call panics at lock().unwrap(); and every
\* transaction signed carried a number that was last or last + 1 at its check.
C1_AcceptsSameOrNextUnlessPoisoned ==
    /\ (RemoteReturned /\ ~returned.call.entryPoisoned) =>
           /\ Accepted <=> SameOrNext(EntryNumber, returned.call.entry[2])
           /\ ~Accepted => (returned.kind = "panic" /\ returned.at = "assert")
    /\ (RemoteReturned /\ returned.call.entryPoisoned) =>
           (returned.kind = "panic" /\ returned.at = "poisoned")
    /\ \A i \in 1..Len(signedLog) : SameOrNext(signedLog[i].number, signedLog[i].last)

\* C1's case: a number one more than the last has been signed, and a call with a
\* number outside {last, last + 1} has aborted on the assertion.
C1_Witness ==
    /\ RemoteReturned
    /\ returned.at = "assert"
    /\ \E i \in 1..Len(signedLog) :
          signedLog[i].number = Add64(signedLog[i].last, One64).sum

HighestSigned == commitment_number_obscure_and_last[2]

InCriticalSection == {t \in Threads : pc[t] \in {"check", "advance"}}

\* C4 as stated: no step (check, advance, signature) of one call falls between
\* the steps of another call on the same wrapper.
C4_CallsNeverInterleave == interleaved = {}

\* C4 as amended: check and advance are one critical section under the Mutex:
\* only its holder is at them, and no check or advance of another call falls
\* between a call's check and its own advance.  The signature is produced after
\* the release, outside the critical section.
C4_CheckAndAdvanceAtomic ==
    /\ \A x \in interleaved : x.gap = "advance" => x.step = "sign"
    /\ \A t \in InCriticalSection : lockHolder = t
    /\ \A t \in Threads : pc[t] = "sign" => lockHolder # t

\* C4's case: two calls run at the same time: one thread is between its check
\* and its advance, the other has passed both and not yet signed, and the
\* first one's check fell between the other's advance and signature.
C4_Witness ==
    /\ \E t, u \in Threads : pc[t] = "advance" /\ pc[u] = "sign"
    /\ [gap |-> "sign", step |-> "check"] \in interleaved

\* C5 as stated: once the secret of a commitment has been revealed, no later
\* request signs a transaction of that commitment.
C5_RevealedNeverResigned ==
    \A r \in revealed : \A i \in 1..Len(signedLog) :
        i > r.after => signedLog[i].number # r.number

\* C5 as amended: the wrapper records no revealed secret; a commitment whose
\* secret has been revealed is not signed again once a higher commitment number
\* has been signed.
C5_RevealedNotResignedOnceSuperseded ==
    \A r \in revealed : \A i, j \in 1..Len(signedLog) :
        (i > r.after /\ j < i /\ Lt64(r.number, signedLog[j].number)) =>
            signedLog[i].number # r.number

\* C5's case: a secret has been revealed, a higher number has been signed, and
\* a request to sign the revealed commitment again has aborted.
C5_Witness ==
    \E r \in revealed :
        /\ RemoteReturned
        /\ returned.at = "assert"
        /\ returned.call.number = r.number
        /\ \E j \in 1..Len(signedLog) : Lt64(r.number, signedLog[j].number)

SignerOps ==
    {"sign_remote_commitment", "sign_closing_transaction", "sign_channel_announcement"}

\* C6 as stated: when the underlying signer fails, the caller of any of the
\* three operations receives the failure as the returned error value.
C6_InnerFailureReturnedAsErr ==
    (returned.call.op \in SignerOps /\ returned.inner = "Err") => returned.kind = "Err"

\* C6 as amended: sign_channel_announcement returns the underlying signer's
\* result as it is; sign_remote_commitment and sign_closing_transaction return
\* Ok when it succeeds and panic (unwrap) when it fails, never an error value.
C6_OnlyAnnouncementReturnsErr ==
    /\ returned.call.op = "sign_channel_announcement" =>
           (returned.inner \in InnerOutcomes /\ returned.kind = returned.inner)
    /\ returned.call.op \in {"sign_remote_commitment", "sign_closing_transaction"} =>
           /\ returned.kind # "Err"
           /\ returned.inner = "Ok" => returned.kind = "Ok"
           /\ returned.inner = "Err" => (returned.kind = "panic" /\ returned.at = "unwrap")

\* C6's case: the underlying signer has failed in sign_remote_commitment.
C6_Witness ==
    /\ returned.call.op = "sign_remote_commitment"
    /\ returned.inner = "Err"

-----------------------------------------------------------------------------
(* inbound_payment: properties. *)

\* verify has returned.
Verified == phase = "verified"

\* The minimum-amount floor asked for at creation (0 when none was given).
Floor == IF created.min_value_msat = None THEN Zero64 ELSE Unwrap(created.min_value_msat)

\* The expiry embedded at creation: timestamp + delta + 7200 in 64 bits.
EmbeddedExpiry ==
    Add64(Add64(created.highest_seen_timestamp,
                U32AsU64(created.invoice_expiry_delta_secs)).sum, TwoHours).sum

\* verify was handed the secret as created, the payment hash it was created
\* with (or for), and the keys of its creation.
Genuine ==
    /\ Verified
    /\ flipped = -1
    /\ verified.key_material = created.key_material
    /\ verified.payment_hash = created.payment_hash

\* The places of verify that reject for lack of authentication (lines 198-221).
AuthRejections == {"type", "hmac", "preimage"}

\* C7: the pair returned by create is accepted by verify when the total is at
\* least the floor and the timestamp not past the embedded expiry, and verify
\* returns a preimage whose SHA256 is the payment hash.
C7_CreateThenVerifyAccepts ==
    (/\ Genuine
     /\ created.fn = "create"
     /\ ~Lt64(verified.total_msat, Floor)
     /\ ~Lt64(EmbeddedExpiry, verified.highest_seen_timestamp))
    => /\ verified.result.kind = "Ok"
       /\ verified.result.preimage # None
       /\ Sha256(Unwrap(verified.result.preimage)) = created.payment_hash

\* C7's case: a payment created with the largest minimum was verified with a
\* total equal to it, before its expiry.
C7_Witness ==
    /\ Genuine
    /\ created.fn = "create"
    /\ created.min_value_msat = Some(MAX_VALUE_MSAT)
    /\ verified.total_msat = MAX_VALUE_MSAT
    /\ ~Lt64(EmbeddedExpiry, verified.highest_seen_timestamp)

\* C8: a secret with one bit of its encrypted metadata flipped is rejected by
\* verify for lack of authentication, whatever hash, total and timestamp come
\* with it.
C8_FlippedBitRejected ==
    (Verified /\ flipped # -1) =>
        /\ verified.result.kind = "Err"
        /\ verified.result.at \in AuthRejections

\* C8's case: a bit of the expiry of a payment created by create was flipped,
\* and verify ran with the payment's own hash, an adequate total and timestamp.
C8_Witness ==
    /\ Verified
    /\ flipped >= AMT_MSAT_LEN * 8
    /\ created.fn = "create"
    /\ verified.payment_hash = created.payment_hash
    /\ ~Lt64(verified.total_msat, Floor)
    /\ ~Lt64(EmbeddedExpiry, verified.highest_seen_timestamp)

\* Whether the request verify was handed authenticates.
Authentic ==
    LET d == DecryptMetadata(secret, ExpandedKey(verified.key_material))
    IN Authenticate(verified.payment_hash, d[1], d[2],
                    ExpandedKey(verified.key_material), verified.noise).kind = "Ok"

\* C9: verify evaluates authentication first; the amount and expiry checks are
\* evaluated only after it has succeeded, and a request that does not
\* authenticate is rejected at the authentication step.
C9_AuthenticationFirst ==
    Verified =>
        /\ verified.result.evaluated[1] = "auth"
        /\ Len(verified.result.evaluated) > 1 => Authentic
        /\ ~Authentic =>
               /\ verified.result.evaluated = <<"auth">>
               /\ verified.result.kind = "Err"
               /\ verified.result.at \in AuthRejections

\* C9's case: a request that fails authentication (a foreign payment hash),
\* whose total is below the floor and whose timestamp is past the expiry.
C9_Witness ==
    /\ Verified
    /\ flipped = -1
    /\ verified.key_material = created.key_material
    /\ verified.payment_hash # created.payment_hash
    /\ Lt64(verified.total_msat, Floor)
    /\ Lt64(EmbeddedExpiry, verified.highest_seen_timestamp)

\* C10: verify rejects an authenticated payment for its amount exactly when
\* total_msat is below the floor embedded in the secret (0 without a minimum).
C10_RejectsBelowFloorOnly ==
    Genuine =>
        /\ Lt64(verified.total_msat, Floor) <=> verified.result.at = "amount"
        /\ verified.result.at = "amount" => verified.result.kind = "Err"

\* C10's case: a payment for a caller's hash, whose first metadata byte also
\* carries the payment type, was verified with a total equal to its floor and
\* not rejected for it; the floor is above the smallest total tried.
C10_Witness ==
    /\ Genuine
    /\ created.fn = "create_from_hash"
    /\ verified.total_msat = Floor
    /\ Lt64(<<0, 0, 0, 999>>, Floor)
    /\ verified.result.at # "amount"

\* C11: verify rejects an authenticated payment whose embedded expiry is before
\* the highest_seen_timestamp it is handed, and rejects for expiry only then:
\* a payment that passed the amount check is rejected for expiry exactly when
\* its expiry is strictly before the timestamp.
C11_RejectsExpiredOnly ==
    Genuine =>
        /\ Lt64(EmbeddedExpiry, verified.highest_seen_timestamp)
               => /\ verified.result.kind = "Err"
                  /\ verified.result.at \in {"amount", "expiry"}
        /\ verified.result.at = "expiry"
               <=> /\ Lt64(EmbeddedExpiry, verified.highest_seen_timestamp)
                   /\ ~Lt64(verified.total_msat, Floor)

\* C11's case: a payment was verified at the very second of its expiry with an
\* adequate total, and was accepted.
C11_Witness ==
    /\ Genuine
    /\ verified.highest_seen_timestamp = EmbeddedExpiry
    /\ ~Lt64(verified.total_msat, Floor)
    /\ verified.result.kind = "Ok"

\* C11's other case: a payment was verified one second after its expiry.
C11_WitnessExpired ==
    /\ Genuine
    /\ verified.highest_seen_timestamp = Add64(EmbeddedExpiry, One64).sum
    /\ verified.result.at = "expiry"

\* What the caller of verify sees of its result: Ok with the preimage, or Err
\* with what the error carries.
CallerVisible(r) == <<r.kind, r.preimage>>

\* C12: every rejection by verify, whichever check made it, hands the caller
\* the same value, Err(()): the returned outcome of a rejected verification
\* does not tell which check failed.
C12_RejectionsAlike ==
    (Verified /\ verified.result.at # "end") =>
        CallerVisible(verified.result) = <<"Err", None>>

\* C12's case: verify rejected a payment that authenticates, at a check after
\* the authentication.
C12_Witness ==
    /\ Genuine
    /\ verified.result.at = "expiry"
    /\ verified.result.kind = "Err"

\* C12's other cases: a rejection for the HMAC, for the payment type tag, and
\* for the amount.
C12_WitnessHmac == Verified /\ verified.result.at = "hmac"

C12_WitnessType == Verified /\ verified.result.at = "type"

C12_WitnessAmount == Verified /\ verified.result.at = "amount"

\* The secret was made for a caller's payment hash and comes back unaltered,
\* to the keys that made it.
FromHashUnaltered ==
    /\ Verified
    /\ created.fn = "create_from_hash"
    /\ flipped = -1
    /\ verified.key_material = created.key_material

\* C13: a secret of create_from_hash for payment hash h is accepted by verify,
\* with no preimage, when presented with h, an adequate total and a timestamp
\* not past the expiry, and is rejected with any other payment hash.
C13_SecretBoundToHash ==
    FromHashUnaltered =>
        /\ (/\ verified.payment_hash = created.payment_hash
            /\ ~Lt64(verified.total_msat, Floor)
            /\ ~Lt64(EmbeddedExpiry, verified.highest_seen_timestamp))
           => CallerVisible(verified.result) = <<"Ok", None>>
        /\ verified.payment_hash # created.payment_hash
           => /\ verified.result.kind = "Err"
              /\ verified.result.at \in AuthRejections

\* C13's case: the secret was presented with another caller's payment hash, an
\* adequate total and a timestamp before the expiry.
C13_Witness ==
    /\ FromHashUnaltered
    /\ verified.payment_hash \in UserHashes \ {created.payment_hash}
    /\ ~Lt64(verified.total_msat, Floor)
    /\ ~Lt64(EmbeddedExpiry, verified.highest_seen_timestamp)

\* C13's other case: the secret was presented with its own hash and accepted.
C13_WitnessAccepted ==
    /\ FromHashUnaltered
    /\ verified.payment_hash = created.payment_hash
    /\ verified.result.kind = "Ok"

\* get_payment_preimage has returned.
Derived == phase = "derived"

\* get_payment_preimage was handed the secret as created and the keys of its
\* creation.
DerivedUnaltered ==
    /\ Derived
    /\ flipped = -1
    /\ preimageOf.key_material = created.key_material

\* Whether the secret and hash get_payment_preimage was handed authenticate,
\* by the authentication of verify.
DerivedAuthentic ==
    LET d == DecryptMetadata(secret, ExpandedKey(preimageOf.key_material))
    IN Authenticate(preimageOf.payment_hash, d[1], d[2],
                    ExpandedKey(preimageOf.key_material), preimageOf.noise).kind = "Ok"

\* The payment type bits get_payment_preimage decoded.
DerivedTypeBits ==
    PaymentTypeBits(DecryptMetadata(secret, ExpandedKey(preimageOf.key_material))[2],
                    preimageOf.noise)

\* get_payment_preimage failed with the error of line 247.
FailedAsMisuse ==
    /\ preimageOf.result.kind = "Err"
    /\ preimageOf.result.value = ExpectedLdkGotUser

\* C14 as stated: get_payment_preimage returns a preimage only for payments of
\* create, fails with the caller-misuse error for a secret of create_from_hash,
\* and a secret and hash that do not authenticate never get that error.
C14_MisuseDistinctFromAuthFailure ==
    Derived =>
        /\ preimageOf.result.kind = "Ok" => created.fn = "create"
        /\ (DerivedUnaltered /\ created.fn = "create_from_hash") => FailedAsMisuse
        /\ ~DerivedAuthentic => ~FailedAsMisuse

\* C14: get_payment_preimage returns a preimage only for an unaltered secret of
\* create with its own payment hash and keys, and the preimage hashes to that
\* payment hash; every failure is an APIMisuseError; a secret of
\* create_from_hash gets the error of line 247, and so does every secret whose
\* decrypted payment type bits read UserPaymentHash, authenticating or not; a
\* secret of create with another payment hash gets a different message.
C14_MisuseErrorByTypeBitsOnly ==
    Derived =>
        /\ preimageOf.result.kind = "Ok" =>
              /\ DerivedUnaltered
              /\ created.fn = "create"
              /\ preimageOf.payment_hash = created.payment_hash
              /\ Sha256(preimageOf.result.value) = created.payment_hash
        /\ preimageOf.result.kind \in {"Ok", "Err"}
        /\ preimageOf.result.kind = "Err" =>
              preimageOf.result.value.variant = "APIMisuseError"
        /\ (DerivedUnaltered /\ created.fn = "create_from_hash") => FailedAsMisuse
        /\ FailedAsMisuse <=> DerivedTypeBits = UserPaymentHash
        /\ (/\ DerivedUnaltered
            /\ created.fn = "create"
            /\ preimageOf.payment_hash # created.payment_hash)
           => /\ preimageOf.result.kind = "Err"
              /\ ~FailedAsMisuse

\* C14's case: the payment type bit of a secret of create was flipped, so that
\* it does not authenticate, and get_payment_preimage failed with the error it
\* gives for a secret of create_from_hash.
C14_Witness ==
    /\ Derived
    /\ created.fn = "create"
    /\ flipped = METHOD_TYPE_OFFSET
    /\ ~DerivedAuthentic
    /\ FailedAsMisuse

\* C14's other cases: a secret of create_from_hash, and a preimage returned.
C14_WitnessFromHash == DerivedUnaltered /\ created.fn = "create_from_hash" /\ FailedAsMisuse

C14_WitnessPreimage == Derived /\ preimageOf.result.kind = "Ok"

\* create or create_from_hash has been called.
CreateCalled == phase # "start"

\* The minimum amount asked for is above MAX_VALUE_MSAT.
AboveSupply ==
    /\ created.min_value_msat # None
    /\ Lt64(MAX_VALUE_MSAT, Unwrap(created.min_value_msat))

C15_ErrIffAboveSupply ==
    CreateCalled =>
        /\ created.kind = "Err" <=> AboveSupply
        /\ created.kind \in {"Ok", "Err", "panic"}
        /\ created.kind = "panic" =>
               Add64(Add64(created.highest_seen_timestamp,
                           U32AsU64(created.invoice_expiry_delta_secs)).sum,
                     TwoHours).overflow
               \/ Add64(created.highest_seen_timestamp,
                        U32AsU64(created.invoice_expiry_delta_secs)).overflow

C15_WitnessErr == CreateCalled /\ created.kind = "Err"

C15_WitnessLargest ==
    /\ CreateCalled
    /\ created.min_value_msat = Some(MAX_VALUE_MSAT)
    /\ created.invoice_expiry_delta_secs = <<65535, 65535>>
    /\ created.kind = "Ok"

-----------------------------------------------------------------------------
(* ChannelMonitor: properties. *)

\* write_for_disk followed by read succeeds on m and gives m back, with its
\* latest block hash.
RoundTrips(m) ==
    LET copy == Read(WriteForDisk(m))
    IN /\ copy.kind = "Ok"
       /\ copy.value[1] = m.last_block_hash
       /\ copy.value[2] = m

\* The channel has a monitor.
Funded == monitor # NoMonitor

\* C16: every monitor reached by add_monitor and update_monitor, and every
\* monitor read with success from arbitrary bytes, is given back equal, with
\* the same latest block hash, by write_for_disk followed by read; the
\* assertions on it in add_monitor, update_monitor and do_test hold.
C16_WriteThenReadGivesEqual ==
    /\ Funded => RoundTrips(monitor)
    /\ \A i \in 1..Len(added_monitors) : RoundTrips(added_monitors[i])
    /\ monReturned.op # "none" => monReturned.ret # "panic" /\ monReturned.round_trip
    /\ fuzzed.read = "Ok" =>
           /\ fuzzed.outcome = "returned"
           /\ RoundTrips(Read(fuzzed.data).value[2])
           /\ Read(fuzzed.data).value[1] = Read(fuzzed.data).value[2].last_block_hash

\* C16's case: a monitor that holds the secrets of all its updates, after a
\* breach, a penalty and a restart, was written and read.
C16_Witness ==
    /\ Funded
    /\ Len(monitor.secrets) = MaxUpdates
    /\ monitor.state = "Resolved"
    /\ reloaded
    /\ monReturned.op = "update_monitor"

\* C16's other case: the fuzz target read a monitor with a secret from its
\* input.
C16_WitnessFuzz ==
    /\ fuzzed.read = "Ok"
    /\ Len(Read(fuzzed.data).value[2].secrets) > 0

\* The states the monitor has entered are the first states of the order
\* Active, BreachDetected, PenaltyBroadcast, Resolved, each entered once, and
\* the monitor is in the last of them.
ForwardOnly ==
    /\ Len(stateLog) <= Len(MonitorStates)
    /\ \A i \in 1..Len(stateLog) : stateLog[i] = MonitorStates[i]
    /\ Funded => Len(stateLog) > 0 /\ monitor.state = stateLog[Len(stateLog)]

\* The last call of the holder was an update_monitor on an Active monitor.
UpdatedWhileActive ==
    /\ monReturned.op = "update_monitor"
    /\ monReturned.state_before = "Active"

\* C17: a channel monitor's state only moves forward along Active,
\* BreachDetected, PenaltyBroadcast, Resolved: no state is entered out of that
\* order, none is re-entered after being left, and while Active every
\* update_monitor call is accepted by the monitor (the harness's assertion on
\* simple_monitor.update_monitor(..).is_ok() holds) and leaves it Active.
C17_StateMovesForwardOnly ==
    /\ ForwardOnly
    /\ UpdatedWhileActive =>
           /\ monReturned.ret # "panic"
           /\ monReturned.applied
           /\ monReturned.state_after = "Active"

\* The monitor was updated while Active, restarted, and went through every
\* state to Resolved.
C17_Witness ==
    /\ UpdatedWhileActive
    /\ monReturned.applied
    /\ reloaded
    /\ stateLog = MonitorStates
    /\ monitor.state = "Resolved"

\* The transaction observed last spends the funding output and is not the
\* latest commitment the monitor knew.
BreachObserved == observed.before # NoMonitor /\ IsBreach(observed.before, observed.tx)

\* A transaction is among those handed to the broadcaster.
WasBroadcast(tx) == \E i \in 1..Len(txn_broadcasted) : txn_broadcasted[i] = tx

\* C18: whenever a confirmed transaction spends the funding output and is not
\* the latest known commitment (any earlier, revoked commitment height), the
\* monitor detects the breach and in the same step computes and broadcasts a
\* non-empty penalty transaction, spending with the revocation secret of that
\* height; this also holds for a monitor that was serialized and deserialized
\* before the observation.
C18_BreachBroadcastsPenalty ==
    BreachObserved =>
        /\ observed.before.state = "Active"
        /\ observed.after.state = "PenaltyBroadcast"
        /\ Len(observed.broadcast) = 1
        /\ observed.broadcast[1].kind = "penalty"
        /\ observed.broadcast[1].inputs = <<SecretOf(observed.tx.height)>>
        /\ WasBroadcast(observed.broadcast[1])
        /\ Len(stateLog) >= 3 /\ stateLog[2] = "BreachDetected"

\* A monitor read back from its bytes observed a commitment two heights
\* behind the latest.
C18_Witness ==
    /\ BreachObserved
    /\ observed.reloaded
    /\ observed.tx.height + 2 <= LatestHeight(observed.before)
    /\ Len(observed.broadcast) = 1

\* The oldest commitment is observed by a monitor that was never reloaded.
C18_WitnessOldest ==
    /\ BreachObserved
    /\ ~observed.reloaded
    /\ observed.tx.height = 0
    /\ LatestHeight(observed.before) = MaxUpdates

\* The last call of the holder was made while the harness was set to fail.
CallFailed == monReturned.op # "none" /\ monReturned.update_ret = "Err"

\* The failure of the last call came back to the caller as its result, and
\* the holder stopped on it.
Surfaced ==
    /\ monReturned.op # "none" => monReturned.ret = monReturned.update_ret
    /\ CallFailed => monReturned.ret = "Err" /\ holder = "halted"

\* Once halted the holder stays halted and no add_monitor or update_monitor
\* call is made: nothing is returned, added or recorded.
HaltedStays ==
    holder = "halted" =>
        /\ holder' = "halted"
        /\ monReturned' = monReturned
        /\ added_monitors' = added_monitors
        /\ latest_monitor_update_id' = latest_monitor_update_id
        /\ update_ret' = update_ret
        /\ next_update_ret' = next_update_ret

C19_WitnessAdd ==
    /\ CallFailed
    /\ monReturned.op = "add_monitor"
    /\ holder = "halted"
    /\ reloaded

-----------------------------------------------------------------------------
(* Features: properties. *)

\* The feature set in hand was written and the bytes read back.
WrittenAndRead == written # NoWritten

\* C20: for every feature set of any context (including the empty set, a
\* supported() set, and a set with an unknown high bit), writing it and
\* reading the written bytes back yields a feature set equal to the original.
C20_WriteThenReadGivesEqualFeatures ==
    WrittenAndRead =>
        /\ written.of = features
        /\ written.read.kind = "Ok"
        /\ written.read.value = features
        /\ Len(written.bytes) = 2 + Len(features.flags)

\* A feature set with the highest bit of its last byte set, unknown in every
\* context, and bytes that differ, was written and read back.
C20_Witness ==
    /\ WrittenAndRead
    /\ Len(features.flags) = MaxFlagsLen
    /\ features.flags[MaxFlagsLen] = 128
    /\ features.flags[1] # features.flags[MaxFlagsLen]

\* The empty set was written and read back.
C20_WitnessEmpty == WrittenAndRead /\ features = FeaturesEmpty("Node")

\* A supported() set was written and read back.
C20_WitnessSupported == WrittenAndRead /\ features = FeaturesSupported("Init")

\* The feature set in hand is what supported() gives in its context.
IsSupported == features.context \in Contexts /\ features = FeaturesSupported(features.context)

\* The feature set in hand is InitFeatures::supported() with
\* initial_routing_sync set afterwards.
IsSupportedWithSync == features = SetInitialRoutingSync(FeaturesSupported("Init"))

\* C21: the supported() feature sets of all three contexts (Init, Node,
\* Channel) neither require nor support unknown bits, and
\* InitFeatures::supported() with initial_routing_sync set afterwards still
\* neither requires nor supports unknown bits.
C21_SupportedHasNoUnknownBits ==
    (IsSupported \/ IsSupportedWithSync) =>
        /\ ~RequiresUnknownBits(features)
        /\ ~SupportsUnknownBits(features)

\* InitFeatures::supported() had initial_routing_sync set, and was written.
C21_Witness ==
    /\ IsSupportedWithSync
    /\ features # FeaturesSupported("Init")
    /\ InitialRoutingSync(features)
    /\ WrittenAndRead

\* supported() of the node context, and of the channel context.
C21_WitnessNode == features = FeaturesSupported("Node")

C21_WitnessChannel == features = FeaturesSupported("Channel") /\ WrittenAndRead

\* Feature bit number bit of a feature set is set: bit 0 is the lowest bit of
\* byte 0 of the flags.
FeatureBit(f, bit) ==
    /\ bit \div 8 < Len(f.flags)
    /\ (f.flags[(bit \div 8) + 1] \div Pow2(bit % 8)) % 2 = 1

\* The feature bits a feature set of the model can hold.
FeatureBits == 0..(8 * (MaxFlagsLen + 2) - 1)

\* The bits meaningful in node context: data_loss_protect (0, 1),
\* upfront_shutdown_script (4, 5) and var_onion_optin (8, 9).
NodeContextBits == {0, 1, 4, 5, 8, 9}

\* The feature set in hand was projected from an InitFeatures.
Projected == projected_from # NoFeatures

\* C22: for every InitFeatures value, NodeFeatures::with_known_relevant_init_flags
\* keeps exactly the bits meaningful in node context (bits 0, 1, 4, 5 of byte 0
\* and bits 8, 9 of byte 1) and blanks every other bit and byte, so the result
\* never has initial_routing_sync set and never supports unknown bits;
\* ChannelFeatures::with_known_relevant_init_flags returns the empty set for
\* every input.
C22_ProjectionKeepsContextBitsOnly ==
    Projected =>
        /\ projected_from.context = "Init"
        /\ features.context = "Node" =>
               /\ \A bit \in FeatureBits :
                      FeatureBit(features, bit) <=>
                          (bit \in NodeContextBits /\ FeatureBit(projected_from, bit))
               /\ Len(features.flags) <= 2
               /\ ~InitialRoutingSync(features)
               /\ ~SupportsUnknownBits(features)
        /\ features.context = "Channel" => features = FeaturesEmpty("Channel")
        /\ features.context \in {"Node", "Channel"}

\* An InitFeatures with every bit of three bytes set was projected into node
\* context.
C22_Witness ==
    /\ Projected
    /\ features.context = "Node"
    /\ Len(projected_from.flags) = MaxFlagsLen
    /\ \A i \in 1..MaxFlagsLen : projected_from.flags[i] = 255
    /\ features.flags = NodeRelevantMask

\* An InitFeatures with initial_routing_sync set and a node bit set was
\* projected into channel context.
C22_WitnessChannel ==
    /\ Projected
    /\ features.context = "Channel"
    /\ InitialRoutingSync(projected_from)
    /\ FeatureBit(projected_from, 1)

\* supported() with initial_routing_sync set was projected into node context,
\* as tests::test_node_with_known_relevant_init_flags does.
C22_WitnessTest ==
    /\ Projected
    /\ projected_from = SetInitialRoutingSync(FeaturesSupported("Init"))
    /\ features = Features("Node", <<34, 2>>)

\* Some even-numbered bit, or some bit, that is set in the feature set in hand
\* and not recognized in the given context.
UnknownEvenBitSet(context) ==
    \E bit \in FeatureBits :
        bit % 2 = 0 /\ FeatureBit(features, bit) /\ bit \notin RecognizedBits(context)

UnknownBitSet(context) ==
    \E bit \in FeatureBits :
        FeatureBit(features, bit) /\ bit \notin RecognizedBits(context)

\* A feature set is in hand.
InHand == features.context \in Contexts

\* C23: requires_unknown_bits() is true exactly when some even-numbered bit
\* outside the recognized mask is set, and supports_unknown_bits() is true
\* exactly when some bit (even or odd) outside the recognized mask is set,
\* where the recognized mask is the one of the feature set's own context
\* (Init, Node or Channel).
C23_UnknownBitsOfOwnContext ==
    InHand =>
        /\ RequiresUnknownBits(features) <=> UnknownEvenBitSet(features.context)
        /\ SupportsUnknownBits(features) <=> UnknownBitSet(features.context)

\* What the code does: both functions scan with the masks of the init context,
\* whatever the context of the feature set.
C23_InitMaskInEveryContext ==
    InHand =>
        /\ RequiresUnknownBits(features) <=> UnknownEvenBitSet("Init")
        /\ SupportsUnknownBits(features) <=> UnknownBitSet("Init")

\* A ChannelFeatures with bit 0 set, a required bit no channel feature is
\* known for, is not reported as requiring or supporting an unknown bit.
C23_Witness ==
    /\ features = Features("Channel", <<1>>)
    /\ ~RequiresUnknownBits(features)
    /\ ~SupportsUnknownBits(features)

\* A NodeFeatures with initial_routing_sync (bit 3) set is not reported as
\* supporting an unknown bit.
C23_WitnessNode ==
    /\ features = Features("Node", <<8>>)
    /\ ~SupportsUnknownBits(features)

-----------------------------------------------------------------------------
(* chan_utils: properties. *)

\* The private and the public derivation made last fail together, and when
\* they succeed the public key of the private key is the public key derived.
DerivationsAgree ==
    /\ derivation.private.kind = "Ok" <=> derivation.public.kind = "Ok"
    /\ derivation.private.kind = "Ok" =>
           PublicKeyFromSecretKey(derivation.private.value) = derivation.public.value

\* A key was derived from a per-commitment point and a base secret that is a
\* secret key.
KeyDerived ==
    /\ derivation.op = "derive_key"
    /\ derivation.private.kind # "panic"

\* C24: for all base secrets and per-commitment points, the public key of
\* derive_private_key(base_secret, per_commitment_point) equals
\* derive_public_key(per_commitment_point, public key of base_secret).
C24_PrivateAndPublicDerivationAgree == KeyDerived => DerivationsAgree

\* A key was derived both ways, and it is neither the base key nor the
\* per-commitment key.
C24_Witness ==
    /\ KeyDerived
    /\ derivation.private.kind = "Ok"
    /\ derivation.public.kind = "Ok"
    /\ derivation.public.value # derivation.points[2]
    /\ derivation.public.value # derivation.points[1]
    /\ derivation.points[1] # derivation.points[2]

\* Both derivations failed: the sum is the zero scalar, the point at infinity.
C24_WitnessFailed ==
    /\ KeyDerived
    /\ derivation.private.kind = "Err"
    /\ derivation.public.kind = "Err"

\* A per-commitment secret was revealed and the revocation key derived, both
\* secrets being secret keys.
RevocationKeyDerived ==
    /\ derivation.op = "derive_revocation_key"
    /\ derivation.private.kind # "panic"

\* C25: for every per-commitment secret revealed, the public key of
\* derive_private_revocation_key(per_commitment_secret, revocation_base_secret)
\* equals derive_public_revocation_key(per_commitment_point,
\* revocation_basepoint), the revocation key predicted for that commitment
\* height.
C25_RevocationKeyAsPredicted == RevocationKeyDerived => DerivationsAgree

\* A revocation key was derived both ways from a secret and a base secret that
\* differ, and it is neither of their points.
C25_Witness ==
    /\ RevocationKeyDerived
    /\ derivation.private.kind = "Ok"
    /\ derivation.public.kind = "Ok"
    /\ derivation.secrets[1] # derivation.secrets[2]
    /\ derivation.public.value # derivation.points[1]
    /\ derivation.public.value # derivation.points[2]

\* A base secret that is no secret key: the binding panics at unwrap().
C25_WitnessPanic ==
    /\ derivation.op = "derive_revocation_key"
    /\ derivation.private.kind = "panic"

\* A commitment index was obscured, stored and extracted.
Obscured == obscuring.op = "obscure"

\* C26: for every 48-bit commitment index and 48-bit channel mask, storing
\* index XOR mask as locktime low 24 bits (low half) and input sequence low 24
\* bits (high half), then extracting the obscured number as the signer wrapper
\* does and XORing it with the mask, returns the original index; bits of
\* locktime and sequence above the low 24 do not affect the extracted number.
C26_ObscuredNumberRoundTrips ==
    Obscured =>
        /\ obscuring.number = obscuring.index
        /\ obscuring.extracted = Xor64(obscuring.index, obscuring.mask)
        /\ obscuring.extracted = ObscuredNumber(StoreObscured(obscuring.extracted, 0, 0))

\* An index with bits in both halves, under a mask with bits in both halves,
\* came back from a transaction with bits above the low 24 of both fields.
C26_Witness ==
    /\ Obscured
    /\ obscuring.index = <<0, 65535, 256, 1>>
    /\ obscuring.mask = <<0, 4660, 65535, 4660>>
    /\ obscuring.tx.lock_time[1] >= 256
    /\ obscuring.tx.input[1][1] >= 256
    /\ obscuring.number = obscuring.index

\* ---- LocalCommitmentTransaction ----

\* get_htlc_sigs was called and returned.
HtlcSigsReturned == htlc_sigs.called /\ htlc_sigs.ret.kind = "Ok"

\* The indices of the stored HTLCs that are dust.
DustIndices(stored) == {i \in 1..Len(stored) : stored[i][1].transaction_output_index = None}

\* C27: get_htlc_sigs, called with a secret key, returns one entry per stored
\* HTLC, in the stored order: the null signature at exactly the indices of the
\* HTLCs without transaction_output_index, and at every other index the
\* signature for the HTLC stored at that index.
C27_OneEntryPerHtlcInOrder ==
    htlc_sigs.called =>
        /\ SecretKeyFromSlice(htlc_sigs.htlc_base_key).kind = "Ok" => htlc_sigs.ret.kind = "Ok"
        /\ htlc_sigs.ret.kind = "Ok" =>
              LET stored == htlc_sigs.stored
                  sigs == htlc_sigs.ret.value
              IN /\ Len(sigs) = Len(stored)
                 /\ {i \in 1..Len(sigs) : CSignatureIsNull(sigs[i])} = DustIndices(stored)
                 /\ \A i \in (1..Len(stored)) \ DustIndices(stored) :
                        sigs[i] = CSignatureFromRust(HtlcSignature(htlc_sigs.htlc_base_key, htlc_sigs.local_csv, stored[i][1]))

\* Two dust HTLCs among three that have an output, the two kinds interleaved.
C27_Witness ==
    /\ HtlcSigsReturned
    /\ Len(htlc_sigs.stored) = 5
    /\ DustIndices(htlc_sigs.stored) = {2, 4}
    /\ htlc_sigs.stored[1][1] # htlc_sigs.stored[3][1]
    /\ htlc_sigs.stored[5][1] = htlc_sigs.stored[1][1]

\* A call with bytes that are no secret key.
C27_WitnessPanic == htlc_sigs.called /\ htlc_sigs.ret.kind = "panic" /\ Len(htlc_sigs.stored) = 5

\* ---- filter_channels ----

\* The positions of the channels passed that have an inbound SCID and
\* forwarding info, and those of them that belong to a counterparty node.
EligibleChannels == {i \in 1..Len(route_hints.channels) : route_hints.channels[i].inbound_payment_scid # None /\ route_hints.channels[i].counterparty.forwarding_info # None}

EligibleChannelsOf(node_id) == {i \in EligibleChannels : route_hints.channels[i].counterparty.node_id = node_id}

\* The hops of the route hints returned, each hint being of one hop.
HintHops == [j \in 1..Len(route_hints.ret) |-> route_hints.ret[j][1]]

\* The hop hints a channel of highest inbound capacity among the eligible
\* channels of its counterparty node.
HintsHighestCapacity(hop) ==
    \E i \in EligibleChannelsOf(hop.src_node_id) :
        /\ route_hints.channels[i].inbound_payment_scid = Some(hop.short_channel_id)
        /\ \A k \in EligibleChannelsOf(hop.src_node_id) :
              route_hints.channels[k].inbound_capacity_msat <= route_hints.channels[i].inbound_capacity_msat

\* C28: filter_channels returns at most one route hint per counterparty node,
\* and the channel hinted has the highest inbound capacity among that
\* counterparty's channels that have an inbound SCID and forwarding info.
C28_OneHintPerCounterpartyOfHighestCapacity ==
    route_hints.called =>
        /\ \A j, k \in DOMAIN HintHops : HintHops[j].src_node_id = HintHops[k].src_node_id => j = k
        /\ \A j \in DOMAIN HintHops : Len(route_hints.ret[j]) = 1 /\ HintsHighestCapacity(HintHops[j])

\* Three private channels to one node, of low, high and medium capacity in
\* that order: the one hint is for the second.
C28_Witness ==
    /\ route_hints.called
    /\ Len(route_hints.channels) = 3
    /\ EligibleChannelsOf(1) = {1, 2, 3}
    /\ route_hints.channels[1].inbound_capacity_msat < route_hints.channels[3].inbound_capacity_msat
    /\ route_hints.channels[3].inbound_capacity_msat < route_hints.channels[2].inbound_capacity_msat
    /\ Len(route_hints.ret) = 1
    /\ HintHops[1].short_channel_id = 2

\* A channel without forwarding info, of the highest capacity, beside an
\* eligible one to the same node: the hint is for the eligible one.
C28_WitnessNoForwardingInfo ==
    /\ route_hints.called
    /\ \E i \in 1..Len(route_hints.channels) :
          /\ i \notin EligibleChannels
          /\ ~ route_hints.channels[i].is_public
          /\ route_hints.channels[i].counterparty.node_id = 2
          /\ \E k \in EligibleChannelsOf(2) :
                route_hints.channels[k].inbound_capacity_msat < route_hints.channels[i].inbound_capacity_msat
    /\ \E j \in DOMAIN HintHops : HintHops[j].src_node_id = 2

\* The positions of the public channels among the channels passed.
PublicChannels == {i \in 1..Len(route_hints.channels) : route_hints.channels[i].is_public}

\* C29: if any public channel is among the channels passed to filter_channels,
\* the route hints returned are empty, whatever private channels are present
\* and in whatever order the channels appear.
C29_AnyPublicChannelNoHints ==
    route_hints.called /\ PublicChannels # {} => route_hints.ret = <<>>

\* What the code does: the route hints are empty if a public channel that has
\* an inbound SCID and forwarding info is among the channels passed.
C29_EligiblePublicChannelNoHints ==
    route_hints.called /\ PublicChannels \cap EligibleChannels # {} => route_hints.ret = <<>>

\* A public channel without forwarding info beside a private channel: the
\* private channel is hinted.
C29_Witness ==
    /\ route_hints.called
    /\ PublicChannels # {}
    /\ PublicChannels \cap EligibleChannels = {}
    /\ route_hints.ret # <<>>

\* A public channel after two private ones, and before them.
C29_WitnessPublicLast ==
    /\ route_hints.called
    /\ PublicChannels \cap EligibleChannels = {3}
    /\ EligibleChannels = {1, 2, 3}
    /\ route_hints.ret = <<>>

C29_WitnessPublicFirst ==
    /\ route_hints.called
    /\ PublicChannels \cap EligibleChannels = {1}
    /\ EligibleChannels = {1, 2, 3}
    /\ route_hints.ret = <<>>

\* The minimum of the call, zero when none is given.
MinInboundCapacity == IF route_hints.min_inbound_capacity_msat = None THEN 0 ELSE Unwrap(route_hints.min_inbound_capacity_msat)

\* An eligible channel reaches the minimum.
MinCapacityChannelExists == \E i \in EligibleChannels : route_hints.channels[i].inbound_capacity_msat >= MinInboundCapacity

\* The counterparty nodes that have an eligible channel, each of which has a
\* channel selected, and those whose selected channel reaches the minimum.
NodesSelected == {route_hints.channels[i].counterparty.node_id : i \in EligibleChannels}

NodesReachingMinimum == {route_hints.channels[i].counterparty.node_id : i \in {k \in EligibleChannels : route_hints.channels[k].inbound_capacity_msat >= MinInboundCapacity}}

NodesHinted == {HintHops[j].src_node_id : j \in DOMAIN HintHops}

\* C30: with no public channel among the channels passed, filter_channels
\* drops the selected channels whose inbound capacity is below
\* min_inbound_capacity_msat exactly when an eligible channel reaches the
\* minimum; when none does, or no minimum is given, every counterparty's
\* selected channel is kept.
C30_MinimumAppliesWhenReachable ==
    route_hints.called /\ PublicChannels = {} =>
        /\ MinCapacityChannelExists => NodesHinted = NodesReachingMinimum
        /\ ~ MinCapacityChannelExists => NodesHinted = NodesSelected
        /\ route_hints.min_inbound_capacity_msat = None => NodesHinted = NodesSelected

\* A minimum one above the capacity of one node's channel, reached by the
\* other node's: only the other node's channel is hinted.
C30_Witness ==
    /\ route_hints.called /\ PublicChannels = {}
    /\ MinInboundCapacity = InboundCapacities[1] + 1
    /\ NodesSelected = {1, 2}
    /\ NodesReachingMinimum = {2}
    /\ NodesHinted = {2}

\* A minimum no channel reaches: both nodes' channels are hinted.
C30_WitnessUnreachable ==
    /\ route_hints.called /\ PublicChannels = {}
    /\ ~ MinCapacityChannelExists
    /\ NodesSelected = {1, 2}
    /\ NodesHinted = {1, 2}

\* No minimum: both nodes' channels are hinted.
C30_WitnessNoMinimum ==
    /\ route_hints.called /\ PublicChannels = {}
    /\ route_hints.min_inbound_capacity_msat = None
    /\ NodesSelected = {1, 2}
    /\ NodesHinted = {1, 2}

\* ---- EnforcingChannelKeys: order of the steps, frame, first call, aborts ----

\* The call that returned last is a sign_remote_commitment call for which the
\* underlying signer was invoked.
RemoteSignerInvoked ==
    returned.call.op = "sign_remote_commitment" /\ returned.inner # "none"

\* A step in which a call returns: a thread's call in progress ends, or a call
\* is made that returns at once.
ReturnStep ==
    \/ \E t \in Threads : pc[t] # "idle" /\ pc'[t] = "idle"
    \/ calls' # calls /\ pc' = pc

\* A step in which a thread's call arrives at the underlying signer.
ArrivesAtSigner(t) == pc[t] # "sign" /\ pc'[t] = "sign"

\* A step in which a sign_remote_commitment call returns without the
\* underlying signer having been invoked.
RemoteRejected ==
    /\ ReturnStep
    /\ returned'.call.op = "sign_remote_commitment"
    /\ returned'.kind = "panic"
    /\ returned'.at \in {"inputs", "poisoned", "assert"}

SignerOnlyAfterCheckAndAdvance ==
    /\ \A t \in Threads :
          ArrivesAtSigner(t) =>
              /\ pc[t] = "advance"
              /\ SameOrNext(call[t].number, call[t].last)
              /\ ~ Lt64(commitment_number_obscure_and_last'[2], call[t].number)
    /\ ReturnStep /\ returned'.call.op = "sign_remote_commitment" /\ returned'.inner # "none" =>
          \E t \in Threads : pc[t] = "sign" /\ pc'[t] = "idle"
    /\ RemoteRejected => returned'.inner = "none" /\ signedLog' = signedLog

\* C31: in every sign_remote_commitment call the underlying signer is invoked
\* only after the commitment-number check has passed and the high-water mark
\* has been advanced, and never for a request that is rejected.
C31_SignerInvokedAfterCheckAndAdvance ==
    /\ [](RemoteSignerInvoked =>
            /\ SameOrNext(returned.call.number, returned.call.last)
            /\ ~ Lt64(commitment_number_obscure_and_last[2], returned.call.number))
    /\ [][SignerOnlyAfterCheckAndAdvance]_vars

\* A call one above the last number was signed, the mark standing at its number.
C31_Witness ==
    /\ RemoteSignerInvoked
    /\ returned.kind = "Ok"
    /\ returned.call.number = Add64(returned.call.last, One64).sum
    /\ commitment_number_obscure_and_last[2] = returned.call.number

\* A call was rejected by the assertion.
C31_WitnessRejected ==
    returned.call.op = "sign_remote_commitment" /\ returned.at = "assert" /\ returned.inner = "none"

\* The call that returned last is one of the two operations without a check.
Unenforced == returned.call.op \in {"sign_closing_transaction", "sign_channel_announcement"}

\* A step in which such a call is made.
UnenforcedCall == ReturnStep /\ returned'.call.op \in {"sign_closing_transaction", "sign_channel_announcement"}

\* C32: sign_closing_transaction and sign_channel_announcement leave the
\* obscuring factor, the highest signed number and the Mutex as they are, and
\* are handed to the underlying signer in any state of the wrapper, a poisoned
\* one included: what they return depends on the underlying signer only.
C32_EnforcementOnRemoteCommitmentOnly ==
    /\ [](Unenforced =>
            /\ returned.inner # "none"
            /\ returned.inner = "Ok" => returned.kind = "Ok")
    /\ [][UnenforcedCall =>
            /\ commitment_number_obscure_and_last' = commitment_number_obscure_and_last
            /\ poisoned' = poisoned
            /\ lockHolder' = lockHolder
            /\ signedLog' = signedLog]_vars

\* sign_closing_transaction signed on a wrapper whose Mutex is poisoned.
C32_Witness ==
    /\ returned.call.op = "sign_closing_transaction"
    /\ returned.call.entryPoisoned
    /\ returned.kind = "Ok"

\* sign_channel_announcement signed after a commitment was signed.
C32_WitnessAnnouncement ==
    /\ returned.call.op = "sign_channel_announcement"
    /\ returned.call.entry[1] # None
    /\ returned.kind = "Ok"

\* The call that returned last is a sign_remote_commitment call for a
\* one-input transaction made on the wrapper as constructed.
FirstRemoteCall ==
    /\ returned.call.op = "sign_remote_commitment"
    /\ Len(returned.call.tx.input) = 1
    /\ returned.call.entry = <<None, Zero64>>

\* C33: on a freshly constructed wrapper the first sign_remote_commitment call
\* (for a transaction that carries a number: one input) passes the check
\* whatever the obscured number, is treated as commitment number 0 and records
\* the obscured number as the mask; a recorded mask is never changed.
C33_FirstCallRecordsMask ==
    /\ [](FirstRemoteCall =>
            /\ returned.at \in {"inner", "unwrap"}
            /\ returned.call.number = Zero64
            /\ commitment_number_obscure_and_last[1] = Some(ObscuredNumber(returned.call.tx)))
    /\ [][commitment_number_obscure_and_last[1] # None =>
            commitment_number_obscure_and_last'[1] = commitment_number_obscure_and_last[1]]_vars

\* The first call, with an obscured number other than 0, was signed.
C33_Witness ==
    /\ FirstRemoteCall
    /\ returned.kind = "Ok"
    /\ ObscuredNumber(returned.call.tx) # Zero64
    /\ signedLog # <<>>

\* A later call was signed at number 1 under the mask of the first.
C33_WitnessLater ==
    /\ returned.call.op = "sign_remote_commitment"
    /\ returned.kind = "Ok"
    /\ returned.call.number = One64
    /\ returned.call.entry[1] # None
    /\ commitment_number_obscure_and_last[1] = returned.call.entry[1]

\* A step in which a sign_remote_commitment call aborts on its inputs or on
\* the commitment-number assertion.
RemoteAborts ==
    /\ ReturnStep
    /\ returned'.call.op = "sign_remote_commitment"
    /\ returned'.kind = "panic"
    /\ returned'.at \in {"inputs", "assert"}

\* C34: a sign_remote_commitment call that aborts (number outside last and
\* last + 1, or not exactly one input) leaves the obscuring factor and the
\* highest signed commitment number as they were before the call.
C34_AbortLeavesStateUnchanged ==
    [][RemoteAborts =>
          /\ commitment_number_obscure_and_last' = commitment_number_obscure_and_last
          /\ commitment_number_obscure_and_last' = returned'.call.entry]_vars

\* A call aborted on the assertion after a commitment was signed at number 1.
C34_Witness ==
    /\ returned.call.op = "sign_remote_commitment"
    /\ returned.at = "assert"
    /\ returned.call.entry[2] = One64
    /\ commitment_number_obscure_and_last = returned.call.entry

\* A call aborted on its inputs.
C34_WitnessInputs ==
    /\ returned.call.op = "sign_remote_commitment"
    /\ returned.at = "inputs"
    /\ returned.call.entry[1] # None
    /\ commitment_number_obscure_and_last = returned.call.entry

\* C35: after a sign_remote_commitment call has aborted on the
\* commitment-number assertion, which poisons the Mutex, the Mutex stays
\* poisoned and no later sign_remote_commitment call is signed.
C35_ViolationIsPermanentStop ==
    /\ [][ReturnStep /\ returned'.at = "assert" => poisoned']_vars
    /\ [][poisoned => poisoned' /\ signedLog' = signedLog
                      /\ commitment_number_obscure_and_last' = commitment_number_obscure_and_last]_vars

\* After the abort, a call carrying the last signed number was refused.
C35_Witness ==
    /\ poisoned
    /\ returned.call.op = "sign_remote_commitment"
    /\ returned.at = "poisoned"
    /\ CommitmentNumber(commitment_number_obscure_and_last, returned.call.obscured) = commitment_number_obscure_and_last[2]

-----------------------------------------------------------------------------
(* inbound_payment: the expiry carried, the metadata round trip, verify and   *)
(* get_payment_preimage.                                                      *)

\* The sum t + d + 7200 of the creation does not fit in 64 bits.
ExpirySumOverflows ==
    LET first == Add64(created.highest_seen_timestamp,
                       U32AsU64(created.invoice_expiry_delta_secs))
    IN first.overflow \/ Add64(first.sum, TwoHours).overflow

\* The expiry the payment secret carries, as verify decodes it (line 193).
CarriedExpiry ==
    DecodedExpiry(DecryptMetadata(secret, ExpandedKey(created.key_material))[2])

\* The verifier's highest_seen_timestamp is at most t + d + 7200, the sum of
\* the creation taken in the integers: a sum that leaves 64 bits is above
\* every u64 timestamp.
WithinTwoHoursOfInvoiceExpiry ==
    ExpirySumOverflows \/ ~Lt64(EmbeddedExpiry, verified.highest_seen_timestamp)

C36_NeverFailedEarlyUnlessSumWraps ==
    Genuine =>
        /\ CarriedExpiry = EmbeddedExpiry
        /\ (~ExpirySumOverflows /\ WithinTwoHoursOfInvoiceExpiry)
               => verified.result.at # "expiry"

C36_WitnessAtExpiry ==
    /\ Genuine
    /\ ~ExpirySumOverflows
    /\ verified.highest_seen_timestamp = CarriedExpiry
    /\ ~Lt64(verified.total_msat, Floor)
    /\ verified.result.kind = "Ok"

\* create or create_from_hash returned a payment secret, and it has not been
\* altered.
CreatedUnaltered == phase # "start" /\ created.kind = "Ok" /\ flipped = -1

\* The metadata of the payment secret, decrypted under the keys of its creation.
CarriedMetadata == DecryptMetadata(secret, ExpandedKey(created.key_material))[2]

\* The payment type the creating function hands to construct_metadata_bytes
\* (lines 84 and 100).
CreatedType == IF created.fn = "create" THEN LdkPaymentHash ELSE UserPaymentHash

\* Byte 0 of an amount, tagged as at line 122 and read back as at lines 187 and
\* 191, gives the payment type and the byte.
TopByteRoundTrips(byte, payment_type) ==
    LET tagged == BitOr(byte, ShlU8(payment_type, METHOD_TYPE_OFFSET))
    IN /\ ShrU8(BitAnd(tagged, 224), METHOD_TYPE_OFFSET) = payment_type
       /\ BitAnd(tagged, 31) = byte

\* C37: for both payment types and every minimum amount up to MAX_VALUE_MSAT,
\* the metadata built by construct_metadata_bytes decodes in verify to the same
\* payment type, the same minimum amount and the same expiry; byte 0 of an
\* accepted amount has its top 3 bits clear (a fact of the constants,
\* evaluated once, before a payment is created).
C37_MetadataRoundTrips ==
    /\ phase = "start" =>
          \A byte \in 0..(MAX_VALUE_MSAT[1] \div 256) :
             /\ BitAnd(byte, 224) = 0
             /\ \A payment_type \in {LdkPaymentHash, UserPaymentHash} :
                   TopByteRoundTrips(byte, payment_type)
    /\ CreatedUnaltered =>
          /\ CarriedMetadata.pads = {}
          /\ PaymentTypeBits(CarriedMetadata, 7) = CreatedType
          /\ DecodedMinAmt(CarriedMetadata) = Floor
          /\ DecodedExpiry(CarriedMetadata) = EmbeddedExpiry
          /\ BitAnd(ToBeBytes(Floor)[1], 224) = 0

\* C37's case: create_from_hash returned a secret for the largest minimum
\* amount, whose byte 0 shares the byte with the type bits of UserPaymentHash.
C37_Witness ==
    /\ CreatedUnaltered
    /\ created.fn = "create_from_hash"
    /\ created.min_value_msat = Some(MAX_VALUE_MSAT)
    /\ CarriedMetadata.bytes[1] = 32 + MAX_VALUE_MSAT[1] \div 256

\* C37's other cases: create with no minimum amount, and create with the
\* largest.
C37_WitnessNoMinimum ==
    /\ CreatedUnaltered
    /\ created.fn = "create"
    /\ created.min_value_msat = None
    /\ DecodedMinAmt(CarriedMetadata) = Zero64

C37_WitnessLargest ==
    /\ CreatedUnaltered
    /\ created.fn = "create"
    /\ DecodedMinAmt(CarriedMetadata) = MAX_VALUE_MSAT

\* verify has returned, and get_payment_preimage after it for the same payment
\* hash, payment secret and keys.
VerifiedAndDerived == phase = "both"

\* verify returned a preimage.
VerifyGavePreimage ==
    /\ verified.result.kind = "Ok"
    /\ verified.result.preimage # None

\* The preimage verify returns for the payment when it is handed a sufficient
\* total before the expiry.
PreimageWhenPaidInTime ==
    VerifyResult(verified.payment_hash, secret, MAX_VALUE_MSAT, Zero64,
                 ExpandedKey(verified.key_material), verified.noise).preimage

\* C38: when verify returns a preimage for a payment hash and secret under
\* some keys, get_payment_preimage with the same hash, secret and keys returns
\* that preimage; and for a payment of create that verify rejects as underpaid
\* or expired, get_payment_preimage still returns the preimage, the one verify
\* returns when the payment is adequate and in time.
C38_VerifyAndGetPaymentPreimageAgree ==
    VerifiedAndDerived =>
        /\ VerifyGavePreimage =>
              /\ preimageOf.result.kind = "Ok"
              /\ preimageOf.result.value = Unwrap(verified.result.preimage)
        /\ (/\ created.fn = "create"
            /\ flipped = -1
            /\ verified.key_material = created.key_material
            /\ verified.payment_hash = created.payment_hash
            /\ verified.result.at \in {"amount", "expiry"})
           => /\ preimageOf.result.kind = "Ok"
              /\ Sha256(preimageOf.result.value) = created.payment_hash
              /\ PreimageWhenPaidInTime # None
              /\ preimageOf.result.value = Unwrap(PreimageWhenPaidInTime)

\* C38's case: verify rejected a payment of create as expired, and
\* get_payment_preimage returned its preimage.
C38_Witness ==
    /\ VerifiedAndDerived
    /\ created.fn = "create"
    /\ verified.result.at = "expiry"
    /\ preimageOf.result.kind = "Ok"

\* C38's other cases: rejected as underpaid, and a preimage returned by both.
C38_WitnessUnderpaid ==
    /\ VerifiedAndDerived
    /\ created.fn = "create"
    /\ verified.result.at = "amount"
    /\ preimageOf.result.kind = "Ok"

C38_WitnessBoth ==
    /\ VerifiedAndDerived
    /\ VerifyGavePreimage
    /\ preimageOf.result.kind = "Ok"

-----------------------------------------------------------------------------
(* Features: requires_unknown_bits and supports_unknown_bits. *)

\* A feature set is in hand.
FeaturesInHand == features # NoFeatures

\* C39: a feature set for which requires_unknown_bits() is true has
\* supports_unknown_bits() true: in every byte position the bits tested by
\* requires_unknown_bits are among those tested by supports_unknown_bits (a
\* fact of the masks, evaluated once, before a set is in hand).
C39_RequiresImpliesSupports ==
    /\ ~FeaturesInHand =>
          \A idx \in 0..MaxFlagsLen, byte \in 0..255 :
             BitAnd(byte, UnknownRequiredMask(idx)) # 0
                 => BitAnd(byte, UnknownMask(idx)) # 0
    /\ FeaturesInHand =>
          (RequiresUnknownBits(features) => SupportsUnknownBits(features))
    /\ written.read.kind = "Ok" =>
          (RequiresUnknownBits(written.read.value)
              => SupportsUnknownBits(written.read.value))

\* C39's case: a feature set received with bit 6 set alone, an even bit of
\* byte 0 that is not understood, requires and supports unknown bits.
C39_Witness ==
    /\ FeaturesInHand
    /\ features.flags = <<64>>
    /\ RequiresUnknownBits(features)
    /\ SupportsUnknownBits(features)

\* C39's other cases: an unknown even bit in a byte after the second, and a
\* set that supports unknown bits and requires none.
C39_WitnessLaterByte ==
    /\ FeaturesInHand
    /\ features.flags = <<0, 0, 1>>
    /\ RequiresUnknownBits(features)

C39_WitnessSupportsOnly ==
    /\ FeaturesInHand
    /\ SupportsUnknownBits(features)
    /\ ~RequiresUnknownBits(features)

-----------------------------------------------------------------------------
(* util::rng of the fuzz target: properties. *)

\* The k-th call of a run computed from counter value k - 1, and gave what its
\* function gives for that value.
ComputedFromPosition(run, k) ==
    /\ run.calls[k].rng = AsU64(k - 1)
    /\ run.calls[k].out = RngOutput(run.calls[k].fn, run.calls[k].len, AsU64(k - 1))

\* Two runs made the same calls up to the k-th: the same functions, on slices
\* of the same length.
SameCallsUpTo(first, second, k) ==
    /\ k <= Len(first.calls)
    /\ k <= Len(second.calls)
    /\ \A j \in 1..k :
          /\ first.calls[j].fn = second.calls[j].fn
          /\ first.calls[j].len = second.calls[j].len

\* C40: after reset_rng_state() the k-th call to any of fill_bytes, rand_u832
\* and rand_f32 is computed from counter value k - 1, each call consuming one
\* counter value, and two runs that made the same calls after a reset obtained
\* the same outputs.
C40_RunsAfterResetAreDeterministic ==
    /\ rng_run.reset =>
          /\ RNG_ITER = AsU64(Len(rng_run.calls))
          /\ \A k \in 1..Len(rng_run.calls) : ComputedFromPosition(rng_run, k)
    /\ rng_previous.reset =>
          \A k \in 1..Len(rng_previous.calls) : ComputedFromPosition(rng_previous, k)
    /\ (rng_run.reset /\ rng_previous.reset) =>
          \A k \in 1..MaxRngCalls :
             SameCallsUpTo(rng_previous, rng_run, k)
                => rng_run.calls[k].out = rng_previous.calls[k].out

\* C40's case: two runs after a reset made the same MaxRngCalls calls, one of
\* each function, the second run following a run that left the counter above 0.
C40_Witness ==
    /\ rng_run.reset
    /\ rng_previous.reset
    /\ Len(rng_run.calls) = MaxRngCalls
    /\ SameCallsUpTo(rng_previous, rng_run, MaxRngCalls)
    /\ \E k \in 1..MaxRngCalls : rng_run.calls[k].fn = "fill_bytes"
    /\ \E k \in 1..MaxRngCalls : rng_run.calls[k].fn = "rand_u832"
    /\ \E k \in 1..MaxRngCalls : rng_run.calls[k].fn = "rand_f32"

\* C40's other cases: fill_bytes on 11 bytes as the second call after a reset
\* gave the bytes of 1, most significant first, and then its first three; and
\* rand_u832 as the second call the bytes of 1, least significant first.
C40_WitnessFillBytes ==
    /\ rng_run.reset
    /\ Len(rng_run.calls) >= 2
    /\ rng_run.calls[2].fn = "fill_bytes"
    /\ rng_run.calls[2].out = <<0, 0, 0, 0, 0, 0, 0, 1, 0, 0, 0>>

C40_WitnessRandU832 ==
    /\ rng_run.reset
    /\ Len(rng_run.calls) >= 2
    /\ rng_run.calls[2].fn = "rand_u832"
    /\ rng_run.calls[2].out[1] = 1
    /\ rng_run.calls[2].out[9] = 1
    /\ rng_run.calls[2].out[8] = 0

====
